---- MODULE Spec2Model ----
(***************************************************************************)
(* A model of the pixel-canvas server's shared-nothing data plane:         *)
(*   - the SPSC ring between a worker and the master (spsc.rs),            *)
(*   - the cooldown bitset and the timing wheel (cooldown.rs,              *)
(*     timing_wheel.rs) as the worker's ingress path uses them (worker.rs),*)
(*   - the canvas, the snapshot pool and its RCU-style publication         *)
(*     (canvas.rs, master.rs),                                             *)
(*   - the worker's full/diff broadcast (worker.rs).                       *)
(* The program's sizes are scaled down; every scaled size is a definition  *)
(* below that carries the source's name and states the source's value.     *)
(***************************************************************************)
EXTENDS Integers, Sequences, FiniteSets, TLC

(***************************************************************************)
(* Sizes.                                                                  *)
(***************************************************************************)
\* log2 of the ring capacity (const_settings.rs: SPSC_CAPACITY = 1024 = 2^10).
SpscBits == 1
\* Width of the cursors in bits (usize: 64 in the source).
WordBits == 3
\* Number of distinct colours a pixel can take (u8: 256 in the source).
NumColors == 2
\* Largest number of successful pushes followed when the ring is used alone.
MaxPush == 4
\* Largest number of writes a worker enqueues in one behaviour.
MaxEnq == 3
\* Slots of the timing wheel (const_settings.rs: TIMING_WHEEL_TICKS = 300).
TIMING_WHEEL_TICKS == 2
\* Words of a cooldown bitset (cooldown.rs: COOLDOWN_ARRAY_LEN = 1024).
COOLDOWN_ARRAY_LEN == 2
\* Number of user-ids that send packets.
NumUsers == 2
\* Largest number of QUIC datagrams drained from one UDP packet.
MaxDgrams == 2
\* Most seconds that pass between two turns of the worker's loop.
MaxElapsed == 2
\* log2 of the number of pool slots (canvas.rs: BUFFER_SIZE = 16 = 2^4).
PoolBits == 1
\* Canvas width in pixels (canvas.rs: CANVAS_WIDTH = 1000).
CANVAS_WIDTH == 2
\* Canvas height in pixels (canvas.rs: CANVAS_HEIGHT = 1000).
CANVAS_HEIGHT == 1
\* Broadcast ticks between two full snapshots (worker.rs: % 60).
FULL_BROADCAST_INTERVAL == 3
\* Largest datagram of a broadcast in bytes (worker.rs: chunks(1200)).
BROADCAST_CHUNK_SIZE == 2
\* Pops of one drain batch of the master (master.rs: 0..128).
MASTER_BATCH_DRAIN == 1
\* Largest number of snapshot publications followed in one behaviour.
MaxPub == 3
\* Number of client connections of the worker.
NumConns == 1
\* Largest value of CANVAS_SEQ followed in one behaviour.
MaxSeq == 3
MaxRuns == 2
\* TX_CAPACITY of const_settings.rs is 65 536 slots; the model keeps a few.
TX_CAPACITY == 4
\* The most packets one connection offers to one flush_outgoing.
MaxSends == 2
\* NUM_BUFFERS of worker.rs is 65 535 provided buffers; the model keeps a few.
NUM_BUFFERS == 2
\* The most receive completions that wait in the completion queue.
MaxCq == 2
\* The chunk size of the program, unscaled (const_settings.rs:
\* BROADCAST_CHUNK_SIZE = 1200; worker.rs: chunks(1200)).
WIRE_CHUNK_SIZE == 1200
\* Bytes of one record of a diff: index (u32) + color (u8).
DIFF_ENTRY_SIZE == 5
\* Pixels of the canvas whose broadcasts are followed chunk by chunk: enough
\* for a snapshot and a diff that need more than one datagram.
FramePixels == 601

SPSC_CAPACITY == 2 ^ SpscBits
BUFFER_SIZE == 2 ^ PoolBits
CANVAS_SIZE == CANVAS_WIDTH * CANVAS_HEIGHT
ConnIds == 1 .. NumConns
WordMod == 2 ^ WordBits
Colors == 0 .. (NumColors - 1)

(***************************************************************************)
(* Wrapping machine arithmetic and the bit operations the code uses.       *)
(***************************************************************************)
wrapping_add(a, b) == (a + b) % WordMod
\* A subtraction that stops at zero instead of wrapping.
saturating_sub(a, b) == IF a >= b THEN a - b ELSE 0
wrapping_sub(a, b) == (a - b + WordMod) % WordMod

RECURSIVE BitAnd(_, _)
BitAnd(a, b) ==
    IF a = 0 \/ b = 0 THEN 0
    ELSE (a % 2) * (b % 2) + 2 * BitAnd(a \div 2, b \div 2)

(***************************************************************************)
(* PixelWrite, the ring's payload (master.rs).                             *)
(***************************************************************************)
PixelWrite(px, py, c) == [x |-> px, y |-> py, color |-> c]
\* A slot of MaybeUninit storage that was never written.
Uninit == [x |-> -1, y |-> -1, color |-> -1]
\* A slot whose bytes are being written: a reader sees no complete payload.
Torn == [x |-> -2, y |-> -2, color |-> -2]
\* The payloads the ring-only specifications push.
SpscVals == {PixelWrite(0, 0, c) : c \in Colors}

\* The user-ids in use: they straddle the boundary between word 0 and word 1.
UserIds == (64 - 1) .. (64 - 2 + NumUsers)

VARIABLES
    tail,      \* SpscRingBuffer.tail, written by the producer
    head,      \* SpscRingBuffer.head, written by the consumer
    buffer,    \* SpscRingBuffer.buffer: slot index -> payload
    pushed,    \* history: the payloads of the successful pushes, in order
    popped,    \* history: the payloads returned by pop, in order
    res,       \* history: the result of the last push or pop that Push, Pop or HandleIncomingCqe made
    prod,      \* the producer thread inside push: [pc, tail, val]
    cons,      \* the consumer thread inside pop: [pc, head, val]
    cooldown_master,  \* WorkerCore.cooldown_master: word index -> set of set bits
    timing_wheel,     \* WorkerCore.timing_wheel: [wheel, current_tick]
    age,              \* history: user -> ticks since its last write was handed to the ring
    gap,              \* history: user -> ticks between its last two writes handed to the ring
    canvas,                  \* Canvas.pixels of the master: index -> byte
    BUFFER_POOL,             \* slot -> raw snapshot (index -> byte)
    COMPRESSED_BUFFER_POOL,  \* slot -> compressed buffer (index -> byte)
    COMPRESSED_LENS,         \* slot -> compressed length
    ACTIVE_INDEX,            \* the published slot
    master_thread,           \* the master thread: [pc, next_active, i, compressed_len] (locals are 0 when dead)
    worker_thread,           \* the worker inside handle_broadcast: [pc, current_active, i, compressed_len]
    last_broadcast_index,    \* WorkerCore.last_broadcast_index
    last_sent_canvas,        \* WorkerCore.last_sent_canvas
    broadcast_ticks,         \* WorkerCore.broadcast_ticks
    diff_buffer,             \* WorkerCore.diff_buffer: a byte sequence
    connections,             \* the connections of transport.connections that are established
    pubs,                    \* history: the number of stores to ACTIVE_INDEX
    snap,                    \* history: slot -> the canvas when its last publication began
    wsnap,                   \* history: pool[i].raw when the worker last observed a new ACTIVE_INDEX = i
    rx,                      \* history: connection -> the kinds of the payloads queued to it
    client,                  \* connection -> the canvas its receiver has rebuilt
    CANVAS_SEQ,              \* the seqlock counter of master.rs
    master_seq,              \* the master's local seq, loaded at the top of its loop
    reader,                  \* the seqlock reader of broadcast.rs: [pc, seq, next_active, i]
    rdirty,                  \* history: a set_pixel changed the canvas during the reader's copy
    set_pixel_call,          \* history: the arguments of the call made by the last SetPixel step
    rle_call,                \* history: the encoding RleEncode made and its decoding by RleDecode
    frame_call,              \* one full and one diff broadcast of an unscaled canvas, step by step
    transport,               \* WorkerCore.transport: [connections, cid_map, free_user_ids]
    incoming,                \* history: the last operation on the transport, with the call if it was handle_incoming
    scids_drawn,             \* history: the number of connection ids the worker has handed out
    since,                   \* history: user -> clock seconds since its last accepted write (kept by LoopIteration)
    tx_free_indices,         \* WorkerCore.tx_free_indices: a Vec of slot indices, popped from its end
    tx_inflight,             \* slot index -> the number of SendMsg entries submitted with it that the kernel has not finished
    tx_cq,                   \* the slot indices of the send completions the kernel posted and the worker has not processed, in order
    tx_torn,                 \* history: the slots whose buffer conn.send wrote while a send using them was not completed
    worker_loop,             \* where the loop of run_linux stands, and broadcast_ticks as it was when this turn began
    recv_sq,                 \* the RecvMsgMulti entries pushed to the submission queue and not yet submitted
    recv_armed,              \* the multishot receives armed in the kernel
    rx_cq,                   \* the receive completions the kernel posted and the worker has not processed, in order
    provide_sq,              \* the buffer ids of the ProvideBuffers entries pushed and not yet submitted
    provided,                \* buffer id -> the number of times the kernel's buffer group holds it
    other_cq                 \* the completions with user_data 0 (ProvideBuffers) the worker has not drained

spscVars == <<tail, head, buffer, pushed, popped, res>>
threadVars == <<prod, cons>>
ingressVars == <<cooldown_master, timing_wheel, age, gap>>
poolVars == <<canvas, BUFFER_POOL, COMPRESSED_BUFFER_POOL, COMPRESSED_LENS, ACTIVE_INDEX,
              master_thread, pubs, snap>>
bcastVars == <<worker_thread, last_broadcast_index, last_sent_canvas, broadcast_ticks, diff_buffer,
               connections, wsnap, rx, client>>
seqVars == <<CANVAS_SEQ, master_seq, reader, rdirty>>
callVars == <<set_pixel_call, rle_call, frame_call>>
transportVars == <<transport, incoming, scids_drawn>>
clockVars == <<since>>
txVars == <<tx_free_indices, tx_inflight, tx_cq, tx_torn>>
ringVars == <<worker_loop, recv_sq, recv_armed, rx_cq, provide_sq, provided, other_cq>>
vars == <<spscVars, threadVars, ingressVars, poolVars, bcastVars, seqVars, callVars, transportVars, clockVars, txVars, ringVars>>

NoRes == [op |-> "none", ok |-> TRUE, val |-> Uninit]
IdleThread == [pc |-> "idle", cur |-> 0, val |-> Uninit]

\* SpscRingBuffer::new
SpscNew ==
    /\ tail = 0
    /\ head = 0
    /\ buffer = [i \in 0 .. (SPSC_CAPACITY - 1) |-> Uninit]
    /\ pushed = << >>
    /\ popped = << >>
    /\ res = NoRes

ThreadsIdle ==
    /\ prod = IdleThread
    /\ cons = IdleThread

\* A boundary check that is off by one (> for >=).
SpscFullOffByOne(current_tail, h) == wrapping_sub(current_tail, h) > SPSC_CAPACITY
\* push's boundary check: current_tail.wrapping_sub(head) >= SPSC_CAPACITY
SpscFull(current_tail, h) == wrapping_sub(current_tail, h) >= SPSC_CAPACITY
\* pop's emptiness check: current_head == tail
SpscEmpty(current_head, t) == current_head = t
\* A mask that loses the low bit of the cursor.
SpscIndexBadMask(cursor) == BitAnd(cursor, SPSC_CAPACITY - 2)
\* index = cursor & (SPSC_CAPACITY - 1)
SpscIndex(cursor) == BitAnd(cursor, SPSC_CAPACITY - 1)

(***************************************************************************)
(* push and pop as whole calls (one thread at a time).                     *)
(***************************************************************************)
\* SpscRingBuffer::push on cursors tl, hd and slots buf: the result and the
\* ring the call leaves behind.
spsc_push(tl, hd, buf, value) ==
    LET current_tail == tl
        next_tail == wrapping_add(current_tail, 1)
    IN  IF SpscFull(current_tail, hd)
        THEN [ok |-> FALSE, tail |-> tl, buffer |-> buf]
        ELSE [ok |-> TRUE, tail |-> next_tail,
              buffer |-> [buf EXCEPT ![SpscIndex(current_tail)] = value]]

Push(value) ==
    LET r == spsc_push(tail, head, buffer, value)
    IN  /\ r.ok => Len(pushed) < MaxPush
        /\ tail' = r.tail
        /\ buffer' = r.buffer
        /\ pushed' = IF r.ok THEN Append(pushed, value) ELSE pushed
        /\ res' = [op |-> "push", ok |-> r.ok, val |-> value]
        /\ UNCHANGED <<head, popped>>

\* SpscRingBuffer::pop on cursors tl, hd and slots buf: the result and the
\* head the call leaves behind.
spsc_pop(tl, hd, buf) ==
    LET current_head == hd
    IN  IF SpscEmpty(current_head, tl)
        THEN [ok |-> FALSE, val |-> Uninit, head |-> hd]
        ELSE [ok |-> TRUE, val |-> buf[SpscIndex(current_head)],
              head |-> wrapping_add(current_head, 1)]

Pop ==
    \E r \in {spsc_pop(tail, head, buffer)} :
        /\ head' = r.head
        /\ popped' = IF r.ok THEN Append(popped, r.val) ELSE popped
        /\ res' = [op |-> "pop", ok |-> r.ok, val |-> r.val]
        /\ UNCHANGED <<tail, buffer, pushed>>

(***************************************************************************)
(* The canvas, the snapshot pool and the RLE codec (canvas.rs, master.rs,  *)
(* client main.rs).  Arrays are functions from 0-based indices; payloads   *)
(* on the wire are sequences of bytes.                                     *)
(***************************************************************************)
\* [0; CANVAS_SIZE]
ZeroCanvas == [i \in 0 .. (CANVAS_SIZE - 1) |-> 0]
\* [0; CANVAS_SIZE * 2]
ZeroCompressed == [i \in 0 .. (2 * CANVAS_SIZE - 1) |-> 0]

\* A set_pixel without the bounds check: the index wraps around the canvas.
set_pixel_wrapping(pixels, x, y, color) ==
    [pixels EXCEPT ![(y * CANVAS_WIDTH + x) % CANVAS_SIZE] = color]
\* Canvas::set_pixel
set_pixel(pixels, x, y, color) ==
    IF x < CANVAS_WIDTH /\ y < CANVAS_HEIGHT
    THEN [pixels EXCEPT ![y * CANVAS_WIDTH + x] = color]
    ELSE pixels

\* No encoding yet.
NoRleCall == [pc |-> "new", src |-> << >>, simd |-> "scalar", payload |-> << >>,
              capacity |-> 0, out |-> << >>, ret |-> 0]
\* No call of set_pixel yet: the canvas is as Canvas::new left it.
NoCall == [x |-> 0, y |-> 0, color |-> 0]
\* The TX slot indices.
TxSlots == 0 .. TX_CAPACITY - 1
\* WorkerCore::new: tx_free_indices.extend(0..TX_CAPACITY), nothing submitted.
TxNew ==
    /\ tx_free_indices = [i \in 1 .. TX_CAPACITY |-> i - 1]
    /\ tx_inflight = [idx \in TxSlots |-> 0]
    /\ tx_cq = << >>
    /\ tx_torn = {}
\* The ids of the provided buffers, and the absence of a buffer in a completion.
BufferIds == 0 .. NUM_BUFFERS - 1
NoBuf == -1
\* run_linux before the loop: provide_initial_buffers has given every buffer
\* to the kernel and drained its completion, the first RecvMsgMulti is submitted.
RingNew ==
    /\ worker_loop = [pc |-> "submit", ticks |-> 0]
    /\ recv_sq = 0
    /\ recv_armed = 1
    /\ rx_cq = << >>
    /\ provide_sq = << >>
    /\ provided = [b \in BufferIds |-> 1]
    /\ other_cq = 0
\* No write was accepted yet.
ClockNew == since = [u \in UserIds |-> -1]
\* Nothing was published and nothing broadcast yet; the buffers are allocated
\* by the first publication.
NoFrame == [pc |-> "new", canvas |-> << >>, compressed |-> << >>, src_idx |-> 0, dst_idx |-> 0,
            compressed_len |-> 0, last_sent_canvas |-> << >>, before |-> << >>,
            broadcast_ticks |-> 0, i |-> 0, diff_buffer |-> << >>,
            full_chunks |-> << >>, diff_chunks |-> << >>]
FrameNew == frame_call = NoFrame
CallNew == set_pixel_call = NoCall /\ rle_call = NoRleCall /\ FrameNew

\* The longest run one pair carries (count < 255 in the run loop).
MAX_RUN == 255
\* The bytes one _mm256 and one _mm_ compare covers.
AVX2_LANES == 32
SSE2_LANES == 16
\* The run detection the build and the CPU select.
SimdPaths == {"avx2", "sse2", "scalar"}
\* slice.len() of a slice modelled as a function on 0 .. len-1
SliceLen(data) == Cardinality(DOMAIN data)

\* _mm256_movemask_epi8(_mm256_cmpeq_epi8(chunk, color_vec)) as u32, and the
\* same of the _mm_ forms: the set of the lanes whose byte equals color.
movemask(src, src_idx, color, lanes) == {j \in 0 .. (lanes - 1) : src[src_idx + j] = color}
\* (!mask).trailing_zeros() on a u32: the lowest of the 32 bits not in mask.
trailing_zeros_not(mask) ==
    CHOOSE j \in 0 .. AVX2_LANES :
        /\ j = AVX2_LANES \/ j \notin mask
        /\ \A k \in 0 .. (j - 1) : k \in mask

\* A block loop that adds whole blocks whatever the count has reached.
RECURSIVE rle_blocks_uncapped(_, _, _, _, _, _)
rle_blocks_uncapped(src, len, color, count, src_idx, lanes) ==
    IF src_idx + lanes <= len
    THEN LET mask == movemask(src, src_idx, color, lanes)
         IN  IF mask = 0 .. (lanes - 1)
             THEN rle_blocks_uncapped(src, len, color, count + lanes, src_idx + lanes, lanes)
             ELSE LET matching == trailing_zeros_not(mask)
                  IN  [count |-> count + matching, src_idx |-> src_idx + matching]
    ELSE [count |-> count, src_idx |-> src_idx]
\* rle_compress, the block loop of one SIMD path:
\* while src_idx + lanes <= len && count + lanes <= 255
RECURSIVE rle_blocks(_, _, _, _, _, _)
rle_blocks(src, len, color, count, src_idx, lanes) ==
    IF src_idx + lanes <= len /\ count + lanes <= MAX_RUN
    THEN LET mask == movemask(src, src_idx, color, lanes)
         IN  IF mask = 0 .. (lanes - 1)
             THEN rle_blocks(src, len, color, count + lanes, src_idx + lanes, lanes)
             ELSE LET matching == trailing_zeros_not(mask)
                  IN  [count |-> count + matching, src_idx |-> src_idx + matching]
    ELSE [count |-> count, src_idx |-> src_idx]

\* A byte loop that closes every run after its first byte.
rle_run_single(src, len, color, count, src_idx) ==
    [count |-> count, src_idx |-> src_idx]

\* A byte loop that ends a run one byte before the longest a pair can carry.
rle_run_short(src, len, color, count, src_idx) ==
    LET steps == CHOOSE n \in 0 .. MAX_RUN :
                     /\ ~(src_idx + n < len /\ src[src_idx + n] = color /\ count + n < MAX_RUN - 1)
                     /\ \A j \in 0 .. (n - 1) :
                            src_idx + j < len /\ src[src_idx + j] = color /\ count + j < MAX_RUN - 1
    IN  [count |-> count + steps, src_idx |-> src_idx + steps]
\* rle_compress, the byte loop that extends one run:
\* while src_idx < len && src[src_idx] == color && count < 255
\* The loop makes `steps` turns: the first number of turns after which its
\* condition is false.
rle_run(src, len, color, count, src_idx) ==
    LET steps == CHOOSE n \in 0 .. MAX_RUN :
                     /\ ~(src_idx + n < len /\ src[src_idx + n] = color /\ count + n < MAX_RUN)
                     /\ \A j \in 0 .. (n - 1) :
                            src_idx + j < len /\ src[src_idx + j] = color /\ count + j < MAX_RUN
    IN  [count |-> count + steps, src_idx |-> src_idx + steps]

\* rle_compress, the outer loop: one (count, color) pair per run
RECURSIVE rle_loop(_, _, _, _, _, _)
rle_loop(src, len, dst, src_idx, dst_idx, simd) ==
    IF src_idx < len
    THEN LET color == src[src_idx]
             blk == CHOOSE r \in {IF simd = "avx2"
                                  THEN rle_blocks(src, len, color, 1, src_idx + 1, AVX2_LANES)
                                  ELSE IF simd = "sse2"
                                  THEN rle_blocks(src, len, color, 1, src_idx + 1, SSE2_LANES)
                                  ELSE [count |-> 1, src_idx |-> src_idx + 1]} : TRUE
             run == CHOOSE r \in {rle_run(src, len, color, blk.count, blk.src_idx)} : TRUE
         IN  rle_loop(src, len, [dst EXCEPT ![dst_idx] = run.count % 256, ![dst_idx + 1] = color],
                      run.src_idx, dst_idx + 2, simd)
    ELSE [dst |-> dst, len |-> dst_idx]

\* rle_compress(src, dst) on the path simd: the bytes left in dst and the
\* length returned
rle_compress(src, dst, simd) ==
    LET len == CHOOSE n \in {SliceLen(src)} : TRUE
    IN  IF len = 0 THEN [dst |-> dst, len |-> 0] ELSE rle_loop(src, len, dst, 0, 0, simd)

\* A fill that counts a byte as written also when the destination is full.
rle_fill_counting(dst, dst_len, dst_idx, color, count) ==
    [dst |-> [i \in DOMAIN dst |-> IF dst_idx <= i /\ i < dst_idx + count THEN color ELSE dst[i]],
     dst_idx |-> dst_idx + count]
\* rle_decompress (client), the for loop that writes one run into dst:
\* for _ in 0..count { if dst_idx < dst.len() { dst[dst_idx] = color; dst_idx += 1 } }
\* The turns write the next cells of dst as long as there are any.
rle_fill(dst, dst_len, dst_idx, color, count) ==
    LET written == IF dst_idx + count <= dst_len THEN count
                   ELSE IF dst_idx < dst_len THEN dst_len - dst_idx ELSE 0
    IN  [dst |-> [i \in DOMAIN dst |->
                    IF dst_idx <= i /\ i < dst_idx + written THEN color ELSE dst[i]],
         dst_idx |-> dst_idx + written]

\* rle_decompress (client), the while loop: src is the payload
RECURSIVE rle_decompress_loop(_, _, _, _, _)
rle_decompress_loop(src, dst, dst_len, src_idx, dst_idx) ==
    IF src_idx + 1 < Len(src)
    THEN LET count == src[src_idx + 1]
             color == src[src_idx + 2]
             f == CHOOSE r \in {rle_fill(dst, dst_len, dst_idx, color, count)} : TRUE
         IN  rle_decompress_loop(src, f.dst, dst_len, src_idx + 2, f.dst_idx)
    ELSE [dst |-> dst, len |-> dst_idx]
\* rle_decompress(src, dst): the bytes left in dst and the length returned
rle_decompress(src, dst) ==
    LET dst_len == CHOOSE n \in {SliceLen(dst)} : TRUE
    IN  rle_decompress_loop(src, dst, dst_len, 0, 0)

\* &data[..n] as a payload
Slice(data, n) == [k \in 1 .. n |-> data[k - 1]]
\* Chunks one byte shorter than asked for.
chunks_of_short(bytes, size) ==
    [k \in 1 .. ((Len(bytes) + size - 2) \div (size - 1)) |->
        SubSeq(bytes, (k - 1) * (size - 1) + 1,
               IF k * (size - 1) < Len(bytes) THEN k * (size - 1) ELSE Len(bytes))]
\* slice.chunks(size): consecutive pieces of size bytes, the last one shorter
\* when size does not divide the length; no piece for an empty slice
chunks_of(bytes, size) ==
    [k \in 1 .. ((Len(bytes) + size - 1) \div size) |->
        SubSeq(bytes, (k - 1) * size + 1,
               IF k * size < Len(bytes) THEN k * size ELSE Len(bytes))]
\* slice.chunks(BROADCAST_CHUNK_SIZE): the datagrams of one payload, in order
chunks(bytes) == chunks_of(bytes, BROADCAST_CHUNK_SIZE)
\* (i as u32).to_le_bytes()
to_le_bytes(i) ==
    <<i % 256, (i \div 256) % 256, (i \div 65536) % 256, (i \div 16777216) % 256>>
\* u32::from_le_bytes
from_le_bytes(b) == b[1] + 256 * b[2] + 65536 * b[3] + 16777216 * b[4]

\* A receiver that got every datagram of a payload in order: their concatenation.
RECURSIVE reassemble(_)
reassemble(dgs) == IF dgs = << >> THEN << >> ELSE Head(dgs) \o reassemble(Tail(dgs))
\* A receiver applying the records of a diff: canvas[index] = color.
RECURSIVE apply_diff(_, _)
apply_diff(cv, bytes) ==
    IF Len(bytes) < 5 THEN cv
    ELSE LET index == from_le_bytes(SubSeq(bytes, 1, 4))
             nxt == IF index < CANVAS_SIZE THEN [cv EXCEPT ![index] = bytes[5]] ELSE cv
         IN  apply_diff(nxt, SubSeq(bytes, 6, Len(bytes)))
\* A receiver applying one payload: a full one replaces, a diff one patches.
client_apply(cv, kind, dgs) ==
    IF kind = "full" THEN rle_decompress(reassemble(dgs), cv).dst
    ELSE apply_diff(cv, reassemble(dgs))

IdleMaster == [pc |-> "idle", next_active |-> 0, i |-> 0, compressed_len |-> 0]
\* loaded is history: the number of publications completed when the worker last
\* loaded ACTIVE_INDEX (run_linux loads it once before the loop).
IdleWorker == [pc |-> "idle", current_active |-> 0, i |-> 0, compressed_len |-> 0, loaded |-> 0]

\* The statics of canvas.rs and Canvas::new
PoolNew ==
    /\ canvas = ZeroCanvas
    /\ BUFFER_POOL = [k \in 0 .. (BUFFER_SIZE - 1) |-> ZeroCanvas]
    /\ COMPRESSED_BUFFER_POOL = [k \in 0 .. (BUFFER_SIZE - 1) |-> ZeroCompressed]
    /\ COMPRESSED_LENS = [k \in 0 .. (BUFFER_SIZE - 1) |-> 0]
    /\ ACTIVE_INDEX = 0
    /\ master_thread = IdleMaster
    /\ pubs = 0
    /\ snap = [k \in 0 .. (BUFFER_SIZE - 1) |-> ZeroCanvas]

IdleReader == [pc |-> "start", seq |-> 0, next_active |-> 0, i |-> 0]

\* CANVAS_SEQ = AtomicUsize::new(0); the reader is about to enter its loop
SeqlockNew ==
    /\ CANVAS_SEQ = 0
    /\ master_seq = 0
    /\ reader = IdleReader
    /\ rdirty = FALSE

\* WorkerCore::new, the broadcast fields
BroadcastNew ==
    /\ worker_thread = IdleWorker
    /\ last_broadcast_index = 0
    /\ last_sent_canvas = ZeroCanvas
    /\ broadcast_ticks = 0
    /\ diff_buffer = << >>
    /\ connections = {}
    /\ wsnap = ZeroCanvas
    /\ rx = [c \in ConnIds |-> << >>]
    /\ client = [c \in ConnIds |-> ZeroCanvas]

(***************************************************************************)
(* The cooldown bitset (cooldown.rs).  A u64 word is the set of its set    *)
(* bit positions: | is union, & !m is set difference, a test is membership.*)
(***************************************************************************)
\* CooldownArray::new
CooldownNew == [j \in 0 .. (COOLDOWN_ARRAY_LEN - 1) |-> {}]
\* chunk_idx = local_id >> 6
ChunkIdx(local_id) == local_id \div (2 ^ 6)
\* bit_mask = 1 << (local_id & 63)
BitMask(local_id) == {BitAnd(local_id, 63)}
\* CooldownArray::is_on_cooldown
is_on_cooldown(arr, local_id) ==
    (arr[ChunkIdx(local_id)] \cap BitMask(local_id)) # {}
\* A set_cooldown that assigns the mask to the word (= for |=).
set_cooldown_assigning(arr, local_id) ==
    [arr EXCEPT ![ChunkIdx(local_id)] = BitMask(local_id)]
\* CooldownArray::set_cooldown
set_cooldown(arr, local_id) ==
    [arr EXCEPT ![ChunkIdx(local_id)] = @ \cup BitMask(local_id)]

(***************************************************************************)
(* The timing wheel (timing_wheel.rs).                                     *)
(***************************************************************************)
\* TimingWheel::new
TimingWheelNew ==
    [wheel |-> [k \in 0 .. (TIMING_WHEEL_TICKS - 1) |-> CooldownNew],
     current_tick |-> 0]
\* TimingWheel::add_cooldown
add_cooldown(tw, local_id) ==
    [tw EXCEPT !.wheel[tw.current_tick] = set_cooldown(@, local_id)]
\* A tick that advances and leaves the expiring bucket as it is.
tick_wheel_keeping(tw) ==
    [wheel |-> tw.wheel, current_tick |-> (tw.current_tick + 1) % TIMING_WHEEL_TICKS]
\* TimingWheel::tick, the wheel's side: advance and wipe the expiring bucket
tick_wheel(tw) ==
    LET cur == (tw.current_tick + 1) % TIMING_WHEEL_TICKS
    IN  [wheel |-> [tw.wheel EXCEPT ![cur] = CooldownNew], current_tick |-> cur]
\* A tick that evicts nobody from the master bitset.
tick_master_idle(tw, master) == master
\* A tick that evicts the bucket it is leaving, not the one it arrives at.
tick_master_stale(tw, master) ==
    [j \in DOMAIN master |-> master[j] \ tw.wheel[tw.current_tick][j]]
\* TimingWheel::tick, the master bitset's side: master &= !expiring
tick_master(tw, master) ==
    LET cur == (tw.current_tick + 1) % TIMING_WHEEL_TICKS
    IN  [j \in DOMAIN master |-> master[j] \ tw.wheel[cur][j]]

(***************************************************************************)
(* The worker's ingress path (worker.rs, transport.rs).                    *)
(***************************************************************************)
\* A QUIC application datagram: its length and, for 5 bytes, the pixel.
Dgram(len, px, py, c) == [len |-> len, x |-> px, y |-> py, color |-> c]
\* The datagrams clients send: well-formed pixels of the lowest and of the
\* highest colour, and one datagram of a wrong length.
Dgrams == {Dgram(5, 0, 0, 0), Dgram(5, 0, 0, NumColors - 1), Dgram(4, 0, 0, 0)}
Packets == UNION {[1 .. n -> Dgrams] : n \in 1 .. MaxDgrams}

\* The states of a quiche::Connection that the code asks about.
ConnStates == {"handshake", "established", "closed"}
is_established(conn) == conn = "established"
is_closed(conn) == conn = "closed"

\* A receive loop that ends at the first datagram of a wrong length.
RECURSIVE dgram_recv_loop_stopping(_)
dgram_recv_loop_stopping(dgrams) ==
    IF dgrams = << >> THEN << >>
    ELSE LET d == Head(dgrams)
         IN  IF d.len = 5
             THEN <<PixelWrite(d.x, d.y, d.color)>> \o dgram_recv_loop_stopping(Tail(dgrams))
             ELSE << >>
\* process_datagrams, the loop `while let Ok(len) = conn.dgram_recv(..)`:
\* keep the datagrams of size_of::<PixelDatagram>() bytes
RECURSIVE dgram_recv_loop(_)
dgram_recv_loop(dgrams) ==
    IF dgrams = << >> THEN << >>
    ELSE LET d == Head(dgrams)
             rest == dgram_recv_loop(Tail(dgrams))
         IN  IF d.len = 5 THEN <<PixelWrite(d.x, d.y, d.color)>> \o rest ELSE rest

\* TransportState::process_datagrams
process_datagrams(conn, dgrams) ==
    IF ~is_established(conn) THEN << >> ELSE dgram_recv_loop(dgrams)

\* Ticks counted since a write, saturating at TIMING_WHEEL_TICKS; -1: no write yet.
NextAge(a) == IF a = -1 THEN -1 ELSE IF a < TIMING_WHEEL_TICKS THEN a + 1 ELSE a

\* run_linux before the loop, with the state WorkerCore::new built
IngressNew ==
    /\ cooldown_master = CooldownNew
    /\ timing_wheel = TimingWheelNew
    /\ age = [u \in UserIds |-> -1]
    /\ gap = [u \in UserIds |-> TIMING_WHEEL_TICKS]

\* WorkerCore::handle_tick.  Only the difference between the wall clock and
\* last_tick_sec decides, and last_tick_sec takes the clock's value after a
\* tick: elapsed is now_sec - *last_tick_sec, the seconds since the last tick.
HandleTick(elapsed) ==
    /\ IF elapsed > 0
       THEN /\ cooldown_master' = tick_master(timing_wheel, cooldown_master)
            /\ timing_wheel' = tick_wheel(timing_wheel)
            /\ age' = [u \in UserIds |-> NextAge(age[u])]
       ELSE UNCHANGED <<cooldown_master, timing_wheel, age>>
    /\ UNCHANGED gap
    /\ UNCHANGED <<spscVars, threadVars, poolVars, bcastVars, seqVars, callVars, transportVars, clockVars, txVars, ringVars>>

\* What the loop of handle_incoming_cqe reads and writes: the worker's
\* cooldown state and the producer side of its ring (with the histories).
WorkerState ==
    [cm |-> cooldown_master, tw |-> timing_wheel,
     tail |-> tail, buffer |-> buffer, pushed |-> pushed, res |-> res,
     age |-> age, gap |-> gap]

\* An accepted write that is stored over the oldest queued one when the ring is full.
accept_write_forcing(st, user_id, p) ==
    LET value == PixelWrite(p.x, p.y, p.color)
        r == CHOOSE pr \in {spsc_push(st.tail, head, st.buffer, value)} : TRUE
    IN  [cm |-> set_cooldown(st.cm, user_id),
         tw |-> add_cooldown(st.tw, user_id),
         tail |-> r.tail,
         buffer |-> [st.buffer EXCEPT ![SpscIndex(st.tail)] = value],
         pushed |-> IF r.ok THEN Append(st.pushed, value) ELSE st.pushed,
         res |-> [op |-> "push", ok |-> r.ok, val |-> value],
         age |-> [st.age EXCEPT ![user_id] = 0],
         gap |-> [st.gap EXCEPT ![user_id] =
                    IF st.age[user_id] = -1 THEN @ ELSE st.age[user_id]]]
\* An accepted write that starts the cooldown only when the push succeeded.
accept_write_on_success(st, user_id, p) ==
    LET value == PixelWrite(p.x, p.y, p.color)
        r == CHOOSE pr \in {spsc_push(st.tail, head, st.buffer, value)} : TRUE
    IN  [cm |-> IF r.ok THEN set_cooldown(st.cm, user_id) ELSE st.cm,
         tw |-> IF r.ok THEN add_cooldown(st.tw, user_id) ELSE st.tw,
         tail |-> r.tail,
         buffer |-> r.buffer,
         pushed |-> IF r.ok THEN Append(st.pushed, value) ELSE st.pushed,
         res |-> [op |-> "push", ok |-> r.ok, val |-> value],
         age |-> IF r.ok THEN [st.age EXCEPT ![user_id] = 0] ELSE st.age,
         gap |-> st.gap]
\* worker.rs:381-387: the write is accepted, the push result is ignored
accept_write(st, user_id, p) ==
    LET value == PixelWrite(p.x, p.y, p.color)
        r == CHOOSE pr \in {spsc_push(st.tail, head, st.buffer, value)} : TRUE
    IN  [cm |-> set_cooldown(st.cm, user_id),
         tw |-> add_cooldown(st.tw, user_id),
         tail |-> r.tail,
         buffer |-> r.buffer,
         pushed |-> IF r.ok THEN Append(st.pushed, value) ELSE st.pushed,
         res |-> [op |-> "push", ok |-> r.ok, val |-> value],
         age |-> [st.age EXCEPT ![user_id] = 0],
         gap |-> [st.gap EXCEPT ![user_id] =
                    IF st.age[user_id] = -1 THEN @ ELSE st.age[user_id]]]

\* A rejection that moves the user to the wheel's current bucket.
reject_write_readd(st, user_id, p) == [st EXCEPT !.tw = add_cooldown(@, user_id)]
\* worker.rs:380: the body of the `if` is skipped
reject_write(st, user_id, p) == st

\* A loop body without the cooldown test.
pixel_turn_unchecked(st, user_id, p) == accept_write(st, user_id, p)
\* worker.rs:379-389: one turn of `for p in pixels`
pixel_turn(st, user_id, p) ==
    IF ~is_on_cooldown(st.cm, user_id)
    THEN accept_write(st, user_id, p)
    ELSE reject_write(st, user_id, p)

\* worker.rs:379-389: `for p in pixels`
RECURSIVE pixel_loop(_, _, _)
pixel_loop(st, user_id, pixels) ==
    IF pixels = << >> THEN st
    ELSE LET after == {pixel_turn(st, user_id, Head(pixels))}
         IN  CHOOSE done \in {pixel_loop(nxt, user_id, Tail(pixels)) : nxt \in after} : TRUE

\* WorkerCore::handle_incoming_cqe for a packet of user_id's established
\* connection that carries the datagrams dgrams (TransportState::handle_incoming hands back
\* the user-id and the pixels, or None when there is no pixel).
HandleIncoming(user_id, dgrams) ==
    \E st \in {pixel_loop(WorkerState, user_id, process_datagrams("established", dgrams))} :
        /\ Len(st.pushed) <= MaxEnq
        /\ cooldown_master' = st.cm
        /\ timing_wheel' = st.tw
        /\ tail' = st.tail
        /\ buffer' = st.buffer
        /\ pushed' = st.pushed
        /\ age' = st.age
        /\ gap' = st.gap
        /\ UNCHANGED <<head, popped, res, threadVars, poolVars, bcastVars, seqVars, callVars, transportVars, clockVars, txVars, ringVars>>

(***************************************************************************)
(* TransportState: the connection table of one worker (transport.rs).      *)
(***************************************************************************)
\* MAX_CONNECTIONS = COOLDOWN_ARRAY_LEN * 64; the model keeps the NumUsers
\* ids of UserIds out of them.
MAX_CONNECTIONS == NumUsers
\* The connection ids clients choose, one more than the worker can serve, and
\* the ids the worker draws for itself: random 20-byte values, so each draw
\* is an id never seen before, and NumScids of them are drawn at most.
Dcids == 0 .. MAX_CONNECTIONS
NumScids == MAX_CONNECTIONS + 1
Scids == (MAX_CONNECTIONS + 1) .. (MAX_CONNECTIONS + NumScids)
NextScid == MAX_CONNECTIONS + 1 + scids_drawn
Cids == Dcids \cup Scids
NoCid == -1
PacketTypes == {"Initial", "Short"}

EmptyMap == [k \in {} |-> NoCid]
MapInsert(m, k, v) == [j \in DOMAIN m \cup {k} |-> IF j = k THEN v ELSE m[j]]
MapRemove(m, ks) == [j \in DOMAIN m \ ks |-> m[j]]
SeqRange(q) == {q[j] : j \in 1 .. Len(q)}

\* TransportState::new: free_user_ids = (0..MAX_CONNECTIONS).collect()
NewTransportState ==
    [connections |-> EmptyMap,
     cid_map |-> EmptyMap,
     free_user_ids |-> [j \in 1 .. MAX_CONNECTIONS |-> 64 - 2 + j]]

\* Option<(u32, Vec<PixelDatagram>)>
None == [some |-> FALSE, user_id |-> -1, pixels |-> << >>]
Some(user_id, pixels) == [some |-> TRUE, user_id |-> user_id, pixels |-> pixels]

\* An accept that asks the QUIC stack first and looks at the free list after.
accept_connection_late_check(ts, scid, dcid, accept_ok) ==
    IF ~accept_ok
    THEN [ts |-> ts, ok |-> FALSE, accept |-> "failed"]
    ELSE IF ts.free_user_ids = << >>
    THEN [ts |-> ts, ok |-> FALSE, accept |-> "ok"]
    ELSE LET user_id == ts.free_user_ids[Len(ts.free_user_ids)]
         IN  [ts |-> [ts EXCEPT
                        !.free_user_ids = SubSeq(@, 1, Len(@) - 1),
                        !.connections = MapInsert(@, scid,
                            [user_id |-> user_id, conn |-> "handshake", dcid |-> dcid])],
              ok |-> TRUE, accept |-> "ok"]
\* An accept that reads the last free user-id and leaves it in the list.
accept_connection_peek(ts, scid, dcid, accept_ok) ==
    IF ts.free_user_ids = << >>
    THEN [ts |-> ts, ok |-> FALSE, accept |-> "refused"]
    ELSE IF ~accept_ok
    THEN [ts |-> ts, ok |-> FALSE, accept |-> "failed"]
    ELSE LET user_id == ts.free_user_ids[Len(ts.free_user_ids)]
         IN  [ts |-> [ts EXCEPT
                        !.connections = MapInsert(@, scid,
                            [user_id |-> user_id, conn |-> "handshake", dcid |-> dcid])],
              ok |-> TRUE, accept |-> "ok"]
\* TransportState::accept_connection; accept_ok is the result of quiche::accept.
\* `accept` records whether quiche::accept was called and what it gave.
accept_connection(ts, scid, dcid, accept_ok) ==
    IF ts.free_user_ids = << >>
    THEN [ts |-> ts, ok |-> FALSE, accept |-> "refused"]
    ELSE IF ~accept_ok
    THEN [ts |-> ts, ok |-> FALSE, accept |-> "failed"]
    ELSE LET user_id == ts.free_user_ids[Len(ts.free_user_ids)]
         IN  [ts |-> [ts EXCEPT
                        !.free_user_ids = SubSeq(@, 1, Len(@) - 1),
                        !.connections = MapInsert(@, scid,
                            [user_id |-> user_id, conn |-> "handshake", dcid |-> dcid])],
              ok |-> TRUE, accept |-> "ok"]

\* TransportState::resolve_connection_id; scid is the value of the random fill.
resolve_connection_id(ts, dcid, ty, scid, accept_ok) ==
    LET process_id == IF dcid \in DOMAIN ts.cid_map THEN ts.cid_map[dcid] ELSE dcid
    IN  IF process_id \in DOMAIN ts.connections
        THEN [ts |-> ts, id |-> process_id, accept |-> "none"]
        ELSE IF ty # "Initial"
        THEN [ts |-> ts, id |-> NoCid, accept |-> "none"]
        ELSE LET a == accept_connection(ts, scid, dcid, accept_ok)
             IN  IF a.ok
                 THEN [ts |-> [a.ts EXCEPT !.cid_map = MapInsert(@, dcid, scid)],
                       id |-> scid, accept |-> a.accept]
                 ELSE [ts |-> a.ts, id |-> NoCid, accept |-> a.accept]

\* conn.recv: the connection's state afterwards is `after` when the protocol
\* allows that step, and a closed connection stays closed.
recv(conn, after) ==
    IF conn = "closed" \/ (conn = "established" /\ after = "handshake") THEN conn ELSE after

\* TransportState::handle_incoming; dgrams are the datagrams conn.dgram_recv
\* hands out after conn.recv.
handle_incoming(ts, dcid, ty, scid, accept_ok, after, dgrams) ==
    LET r == resolve_connection_id(ts, dcid, ty, scid, accept_ok)
    IN  IF r.id = NoCid
        THEN [ts |-> r.ts, ret |-> None, accept |-> r.accept, id |-> NoCid, conn |-> "none"]
        ELSE LET tuple == r.ts.connections[r.id]
                 conn == recv(tuple.conn, after)
                 pixels == process_datagrams(conn, dgrams)
             IN  [ts |-> [r.ts EXCEPT !.connections[r.id].conn = conn],
                  ret |-> IF pixels = << >> THEN None ELSE Some(tuple.user_id, pixels),
                  accept |-> r.accept, id |-> r.id, conn |-> conn]

\* A cleanup that frees the user-ids and keeps the reverse map as it is.
cleanup_connections_keeping_map(ts, order) ==
    LET freed_ids == [j \in 1 .. Len(order) |-> ts.connections[order[j]].user_id]
    IN  [connections |-> MapRemove(ts.connections, SeqRange(order)),
         cid_map |-> ts.cid_map,
         free_user_ids |-> ts.free_user_ids \o freed_ids]
\* TransportState::cleanup_connections; order is the order in which retain
\* visits the closed entries of the hash map.
cleanup_connections(ts, order) ==
    LET freed_ids == [j \in 1 .. Len(order) |-> ts.connections[order[j]].user_id]
        freed_dcids == {ts.connections[order[j]].dcid : j \in 1 .. Len(order)}
    IN  [connections |-> MapRemove(ts.connections, SeqRange(order)),
         cid_map |-> MapRemove(ts.cid_map, freed_dcids),
         free_user_ids |-> ts.free_user_ids \o freed_ids]

\* The closed entries of the table and the orders a retain can visit them in.
ClosedIds(ts) == {k \in DOMAIN ts.connections : is_closed(ts.connections[k].conn)}
Orders(ids) ==
    {q \in [1 .. Cardinality(ids) -> ids] : \A j, k \in 1 .. Cardinality(ids) : j # k => q[j] # q[k]}

LastOp(op) == [op |-> op, dgrams |-> << >>, accept |-> "none", id |-> NoCid, ret |-> None]
TransportNew ==
    /\ transport = NewTransportState
    /\ incoming = LastOp("new")
    /\ scids_drawn = 0

\* WorkerCore::handle_incoming_cqe for one received UDP packet: the transport
\* resolves or accepts the connection and hands back the pixels, then the
\* loop `for p in pixels` runs.
HandleIncomingCqe(dcid, ty, accept_ok, after, dgrams) ==
    /\ \E h \in {handle_incoming(transport, dcid, ty, NextScid, accept_ok, after, dgrams)} :
       \E st \in {IF h.ret.some THEN pixel_loop(WorkerState, h.ret.user_id, h.ret.pixels)
                  ELSE WorkerState} :
        /\ h.accept = "ok" => scids_drawn < NumScids
        /\ Len(st.pushed) <= MaxEnq
        /\ scids_drawn' = IF h.accept = "ok" THEN scids_drawn + 1 ELSE scids_drawn
        /\ transport' = h.ts
        /\ incoming' = [op |-> "handle_incoming", dgrams |-> dgrams, accept |-> h.accept,
                        id |-> h.id, ret |-> h.ret]
        /\ cooldown_master' = st.cm
        /\ timing_wheel' = st.tw
        /\ tail' = st.tail
        /\ buffer' = st.buffer
        /\ pushed' = st.pushed
        /\ res' = st.res
        /\ age' = st.age
        /\ gap' = st.gap
    /\ UNCHANGED <<head, popped, threadVars, poolVars, bcastVars, seqVars, callVars, clockVars, txVars, ringVars>>

\* TransportState::cleanup_connections as an operation of the worker
CleanupConnections ==
    /\ \E order \in Orders(ClosedIds(transport)) :
           transport' = cleanup_connections(transport, order)
    /\ incoming' = LastOp("cleanup_connections")
    /\ UNCHANGED scids_drawn
    /\ UNCHANGED <<spscVars, threadVars, ingressVars, poolVars, bcastVars, seqVars, callVars, clockVars, txVars, ringVars>>

\* WorkerCore::maintain_connections when 20 ms have passed: on_timeout on
\* every connection (those of timed_out close), then
\* connections.retain(|_, (_, conn)| !conn.is_closed())
MaintainConnections(timed_out) ==
    /\ transport' = [transport EXCEPT !.connections =
           [k \in {j \in DOMAIN @ : j \notin timed_out /\ ~is_closed(@[j].conn)} |-> @[k]]]
    /\ incoming' = LastOp("maintain_connections")
    /\ UNCHANGED scids_drawn
    /\ UNCHANGED <<spscVars, threadVars, ingressVars, poolVars, bcastVars, seqVars, callVars, clockVars, txVars, ringVars>>

\* A drain turn that applies the popped write and leaves it in the ring.
MasterPopKeeping ==
    \E r \in {spsc_pop(tail, head, buffer)} :
        /\ head' = head
        /\ popped' = IF r.ok THEN Append(popped, r.val) ELSE popped
        /\ canvas' = IF r.ok THEN set_pixel(canvas, r.val.x, r.val.y, r.val.color) ELSE canvas
        /\ UNCHANGED <<tail, buffer, pushed, res>>
        /\ UNCHANGED <<BUFFER_POOL, COMPRESSED_BUFFER_POOL, COMPRESSED_LENS, ACTIVE_INDEX,
                       master_thread, pubs, snap>>
        /\ UNCHANGED <<ingressVars, threadVars, bcastVars, seqVars, callVars, transportVars, clockVars, txVars, ringVars>>
\* MasterCore::run, one turn of the drain loop: worker_queue.pop() and, for
\* Some(pixel), canvas.set_pixel(pixel.x, pixel.y, pixel.color)
MasterPop ==
    \E r \in {spsc_pop(tail, head, buffer)} :
        /\ head' = r.head
        /\ popped' = IF r.ok THEN Append(popped, r.val) ELSE popped
        /\ canvas' = IF r.ok THEN set_pixel(canvas, r.val.x, r.val.y, r.val.color) ELSE canvas
        /\ UNCHANGED <<tail, buffer, pushed, res>>
        /\ UNCHANGED <<BUFFER_POOL, COMPRESSED_BUFFER_POOL, COMPRESSED_LENS, ACTIVE_INDEX,
                       master_thread, pubs, snap>>
        /\ UNCHANGED <<ingressVars, threadVars, bcastVars, seqVars, callVars, transportVars, clockVars, txVars, ringVars>>

InitIngress == SpscNew /\ ThreadsIdle /\ IngressNew /\ PoolNew /\ BroadcastNew /\ SeqlockNew
    /\ CallNew /\ TransportNew /\ ClockNew /\ TxNew /\ RingNew
NextIngress ==
    \/ \E elapsed \in 0 .. MaxElapsed : HandleTick(elapsed)
    \/ \E u \in UserIds, d \in Packets : HandleIncoming(u, d)
    \/ MasterPop
SpecIngress == InitIngress /\ [][NextIngress]_vars
\* The master's loop never stops: its drain turn is taken again and again.
SpecIngressFair == SpecIngress /\ WF_vars(MasterPop)

InitTransport == InitIngress
NextTransport ==
    \/ \E dcid \in Cids, ty \in PacketTypes, accept_ok \in BOOLEAN,
          after \in ConnStates, dgrams \in {<< >>} :
           /\ ty = "Initial" => dcid \in Dcids
           /\ HandleIncomingCqe(dcid, ty, accept_ok, after, dgrams)
    \/ CleanupConnections
    \/ \E timed_out \in SUBSET Scids : MaintainConnections(timed_out)
SpecTransport == InitTransport /\ [][NextTransport]_vars

\* The worker's ingress with datagrams.  Two clients connect, the one with
\* the lowest and the one with the highest connection id; their later
\* packets carry the id the worker drew; quiche::accept succeeds.  A packet
\* carries up to MaxDgrams datagrams, well-formed or one byte short, or none.
DatagramClients == {0, MAX_CONNECTIONS}
DatagramPackets ==
    {<< >>} \cup UNION {[1 .. n -> {Dgram(5, 0, 0, NumColors - 1), Dgram(4, 0, 0, 0)}] :
                           n \in 1 .. MaxDgrams}
InitDatagram == InitIngress
NextDatagram ==
    \E dcid \in DatagramClients \cup Scids, after \in ConnStates, dgrams \in DatagramPackets :
        HandleIncomingCqe(dcid, IF dcid \in Scids THEN "Short" ELSE "Initial", TRUE, after, dgrams)
SpecDatagram == InitDatagram /\ [][NextDatagram]_vars

\* The ingress of one client whose handshake completes with its first
\* packet, with the clock and the master's drain: the cooldown expires, the
\* ring fills and empties.  Its packets carry one datagram of any kind, or
\* two well-formed datagrams of different colours.
BackpressurePackets ==
    {<<d>> : d \in Dgrams} \cup {<<Dgram(5, 0, 0, 0), Dgram(5, 0, 0, NumColors - 1)>>}
InitBackpressure == InitIngress
NextBackpressure ==
    \/ \E dcid \in {0} \cup Scids, dgrams \in BackpressurePackets :
           HandleIncomingCqe(dcid, IF dcid \in Scids THEN "Short" ELSE "Initial", TRUE,
                             "established", dgrams)
    \/ \E elapsed \in 0 .. MaxElapsed : HandleTick(elapsed)
    \/ MasterPop
SpecBackpressure == InitBackpressure /\ [][NextBackpressure]_vars

(***************************************************************************)
(* Canvas::set_pixel on its own (canvas.rs).                               *)
(***************************************************************************)
\* One call of set_pixel; x and y also take values past the canvas, x up to
\* a whole row past the width.
SetPixel(x, y, color) ==
    /\ canvas' = set_pixel(canvas, x, y, color)
    /\ set_pixel_call' = [x |-> x, y |-> y, color |-> color]
    /\ UNCHANGED <<rle_call, frame_call>>
    /\ UNCHANGED <<BUFFER_POOL, COMPRESSED_BUFFER_POOL, COMPRESSED_LENS, ACTIVE_INDEX,
                   master_thread, pubs, snap>>
    /\ UNCHANGED <<spscVars, threadVars, ingressVars, bcastVars, seqVars, transportVars, clockVars, txVars, ringVars>>

InitCanvas == InitIngress
NextCanvas ==
    \E x \in 0 .. (2 * CANVAS_WIDTH), y \in 0 .. (CANVAS_HEIGHT + 1), color \in Colors :
        SetPixel(x, y, color)
SpecCanvas == InitCanvas /\ [][NextCanvas]_vars

(***************************************************************************)
(* The RLE codec on its own (master.rs, broadcast.rs, client main.rs).     *)
(***************************************************************************)
\* The byte sequences encoded: up to MaxRuns stretches of one colour each,
\* as long as one byte, one block of either SIMD width, the longest run of a
\* pair or one byte more; neighbouring stretches of one colour make longer runs.  The
\* codec does not look at the canvas size, and neither do these inputs.
StretchLens == {1, SSE2_LANES, AVX2_LANES, MAX_RUN, MAX_RUN + 1}
Stretches == UNION {[1 .. n -> StretchLens \X Colors] : n \in 0 .. MaxRuns}
RECURSIVE Expand(_)
Expand(stretches) ==
    IF stretches = << >> THEN << >>
    ELSE [j \in 1 .. Head(stretches)[1] |-> Head(stretches)[2]] \o Expand(Tail(stretches))
\* A sequence as a slice, indexed from 0.
AsSlice(q) == [i \in 0 .. (Len(q) - 1) |-> q[i + 1]]
\* A byte no input holds, the content of a destination before the decoding.
Filler == NumColors
\* The destinations decoded into: as long as the input, one byte longer, one
\* byte shorter, half as long.
Capacities(len) == {len, len + 1, len \div 2} \cup {c \in {len - 1} : c >= 0}

\* broadcast.rs rle_compress, the scalar encoder: one pass over data with
\* last_val and a u8 count.  From byte i on, the loop takes the first branch
\* (count += 1) for `same` turns and then, if a byte is left, the second one
\* (push count and last_val, start the next run with that byte).
RECURSIVE rle_scalar_loop(_, _, _, _, _, _)
rle_scalar_loop(data, len, i, last_val, count, compressed) ==
    LET same == CHOOSE n \in 0 .. MAX_RUN :
                    /\ ~(i + n < len /\ data[i + n] = last_val /\ count + n < MAX_RUN)
                    /\ \A j \in 0 .. (n - 1) :
                           i + j < len /\ data[i + j] = last_val /\ count + j < MAX_RUN
    IN  IF i + same = len THEN compressed \o <<count + same, last_val>>
        ELSE rle_scalar_loop(data, len, i + same + 1, data[i + same], 1,
                             compressed \o <<count + same, last_val>>)
rle_compress_scalar(data) ==
    IF SliceLen(data) = 0 THEN << >>
    ELSE rle_scalar_loop(data, SliceLen(data), 1, data[0], 1, << >>)

\* One encoding with master.rs's rle_compress on the path simd into a buffer
\* of twice the input's length.
RleEncode(stretches, simd) ==
    /\ rle_call.pc = "new"
    /\ \E src \in {AsSlice(Expand(stretches))} :
       \E enc \in {rle_compress(src, [i \in 0 .. (2 * SliceLen(src) - 1) |-> 0], simd)} :
           rle_call' = [rle_call EXCEPT !.pc = "encoded", !.src = src, !.simd = simd,
                                        !.payload = Slice(enc.dst, enc.len)]
    /\ UNCHANGED <<set_pixel_call, frame_call>>
    /\ UNCHANGED <<spscVars, threadVars, ingressVars, poolVars, bcastVars, seqVars, transportVars, clockVars, txVars, ringVars>>

\* The decoding of that payload with the client's rle_decompress into a
\* destination of capacity bytes.
RleDecode(capacity) ==
    /\ rle_call.pc = "encoded"
    /\ \E dec \in {rle_decompress(rle_call.payload, [i \in 0 .. (capacity - 1) |-> Filler])} :
           rle_call' = [rle_call EXCEPT !.pc = "decoded", !.capacity = capacity,
                                        !.out = dec.dst, !.ret = dec.len]
    /\ UNCHANGED <<set_pixel_call, frame_call>>
    /\ UNCHANGED <<spscVars, threadVars, ingressVars, poolVars, bcastVars, seqVars, transportVars, clockVars, txVars, ringVars>>

InitRle == InitIngress
NextRle ==
    \/ \E stretches \in Stretches, simd \in SimdPaths : RleEncode(stretches, simd)
    \/ \E capacity \in Capacities(SliceLen(rle_call.src)) : RleDecode(capacity)
SpecRle == InitRle /\ [][NextRle]_vars

SeqPush == (\E v \in SpscVals : Push(v)) /\ UNCHANGED <<threadVars, ingressVars, poolVars, bcastVars, seqVars, callVars, transportVars, clockVars, txVars, ringVars>>
SeqPop == Pop /\ UNCHANGED <<threadVars, ingressVars, poolVars, bcastVars, seqVars, callVars, transportVars, clockVars, txVars, ringVars>>

InitSpsc == SpscNew /\ ThreadsIdle /\ IngressNew /\ PoolNew /\ BroadcastNew /\ SeqlockNew
    /\ CallNew /\ TransportNew /\ ClockNew /\ TxNew /\ RingNew
NextSpsc == SeqPush \/ SeqPop
SpecSpsc == InitSpsc /\ [][NextSpsc]_vars

(***************************************************************************)
(* push and pop step by step: the producer (worker) thread and the         *)
(* consumer (master) thread interleave at every cursor load, slot access   *)
(* and cursor store.  A slot access is not atomic: it begins and it ends.  *)
(***************************************************************************)
\* spsc.rs:35  let current_tail = self.tail.load(Relaxed)
PLoadTail(value) ==
    /\ prod.pc = "idle"
    /\ Len(pushed) < MaxPush
    /\ prod' = [pc |-> "check", cur |-> tail, val |-> value]
    /\ UNCHANGED <<spscVars, cons, ingressVars, poolVars, bcastVars, seqVars, callVars, transportVars, clockVars, txVars, ringVars>>

\* spsc.rs:39  if current_tail.wrapping_sub(self.head.load(Acquire)) >= CAP
PCheck ==
    /\ prod.pc = "check"
    /\ IF SpscFull(prod.cur, head)
       THEN prod' = IdleThread
       ELSE prod' = [prod EXCEPT !.pc = "write"]
    /\ UNCHANGED <<spscVars, cons, ingressVars, poolVars, bcastVars, seqVars, callVars, transportVars, clockVars, txVars, ringVars>>

\* The slot write of a producer that publishes the new tail before the
\* payload is in the slot.
PWriteBeginPublishing ==
    /\ prod.pc = "write"
    /\ buffer' = [buffer EXCEPT ![SpscIndex(prod.cur)] = Torn]
    /\ tail' = wrapping_add(prod.cur, 1)
    /\ prod' = [prod EXCEPT !.pc = "writing"]
    /\ UNCHANGED <<head, pushed, popped, res, cons, ingressVars, poolVars, bcastVars, seqVars, callVars, transportVars, clockVars, txVars, ringVars>>

\* spsc.rs:47  (*self.buffer[index].get()).write(value): the write begins
PWriteBegin ==
    /\ prod.pc = "write"
    /\ buffer' = [buffer EXCEPT ![SpscIndex(prod.cur)] = Torn]
    /\ prod' = [prod EXCEPT !.pc = "writing"]
    /\ UNCHANGED <<tail, head, pushed, popped, res, cons, ingressVars, poolVars, bcastVars, seqVars, callVars, transportVars, clockVars, txVars, ringVars>>

\* spsc.rs:47  the write is complete
PWriteEnd ==
    /\ prod.pc = "writing"
    /\ buffer' = [buffer EXCEPT ![SpscIndex(prod.cur)] = prod.val]
    /\ prod' = [prod EXCEPT !.pc = "publish"]
    /\ UNCHANGED <<tail, head, pushed, popped, res, cons, ingressVars, poolVars, bcastVars, seqVars, callVars, transportVars, clockVars, txVars, ringVars>>

\* spsc.rs:51  self.tail.store(next_tail, Release)
PStoreTail ==
    /\ prod.pc = "publish"
    /\ tail' = wrapping_add(prod.cur, 1)
    /\ pushed' = Append(pushed, prod.val)
    /\ prod' = IdleThread
    /\ UNCHANGED <<head, buffer, popped, res, cons, ingressVars, poolVars, bcastVars, seqVars, callVars, transportVars, clockVars, txVars, ringVars>>

\* spsc.rs:57  let current_head = self.head.load(Relaxed)
CLoadHead ==
    /\ cons.pc = "idle"
    /\ cons' = [pc |-> "check", cur |-> head, val |-> Uninit]
    /\ UNCHANGED <<spscVars, prod, ingressVars, poolVars, bcastVars, seqVars, callVars, transportVars, clockVars, txVars, ringVars>>

\* spsc.rs:58  if current_head == self.tail.load(Acquire)
CCheck ==
    /\ cons.pc = "check"
    /\ IF SpscEmpty(cons.cur, tail)
       THEN cons' = IdleThread
       ELSE cons' = [cons EXCEPT !.pc = "read"]
    /\ UNCHANGED <<spscVars, prod, ingressVars, poolVars, bcastVars, seqVars, callVars, transportVars, clockVars, txVars, ringVars>>

\* spsc.rs:64  assume_init_read(): the read begins
CReadBegin ==
    /\ cons.pc = "read"
    /\ cons' = [cons EXCEPT !.pc = "reading", !.val = buffer[SpscIndex(cons.cur)]]
    /\ UNCHANGED <<spscVars, prod, ingressVars, poolVars, bcastVars, seqVars, callVars, transportVars, clockVars, txVars, ringVars>>

\* spsc.rs:64  the read is complete; bytes that changed under it are torn
CReadEnd ==
    /\ cons.pc = "reading"
    /\ cons' = [cons EXCEPT !.pc = "publish",
                            !.val = IF buffer[SpscIndex(cons.cur)] = cons.val
                                    THEN cons.val ELSE Torn]
    /\ UNCHANGED <<spscVars, prod, ingressVars, poolVars, bcastVars, seqVars, callVars, transportVars, clockVars, txVars, ringVars>>

\* spsc.rs:67  self.head.store(current_head.wrapping_add(1), Release)
CStoreHead ==
    /\ cons.pc = "publish"
    /\ head' = wrapping_add(cons.cur, 1)
    /\ popped' = Append(popped, cons.val)
    /\ cons' = IdleThread
    /\ UNCHANGED <<tail, buffer, pushed, res, prod, ingressVars, poolVars, bcastVars, seqVars, callVars, transportVars, clockVars, txVars, ringVars>>

Producer ==
    \/ \E v \in SpscVals : PLoadTail(v)
    \/ PCheck
    \/ PWriteBegin
    \/ PWriteEnd
    \/ PStoreTail

Consumer ==
    \/ CLoadHead
    \/ CCheck
    \/ CReadBegin
    \/ CReadEnd
    \/ CStoreHead

NextSpscConc == Producer \/ Consumer
SpecSpscConc == InitSpsc /\ [][NextSpscConc]_vars

(***************************************************************************)
(* Snapshot publication and broadcast step by step: the master thread      *)
(* (master.rs) and the worker thread inside handle_broadcast (worker.rs)   *)
(* interleave at the granularity of one byte copied or one field stored.   *)
(***************************************************************************)
\* The pixel writes a worker enqueues in this specification.
PoolVals ==
    {PixelWrite(0, 0, NumColors - 1),
     PixelWrite(CANVAS_WIDTH - 1, CANVAS_HEIGHT - 1, NumColors - 1)}

othersIdle == UNCHANGED <<threadVars, ingressVars, seqVars, callVars, transportVars, clockVars, txVars, ringVars>>

\* handle_incoming_cqe: let _ = self.master_queue.push(PixelWrite {..}); the
\* worker's loop runs it between two calls of handle_broadcast
WorkerEnqueue(value) ==
    \E r \in {spsc_push(tail, head, buffer, value)} :
        /\ worker_thread.pc = "idle"
        /\ Len(pushed) < MaxEnq
        /\ tail' = r.tail
        /\ buffer' = r.buffer
        /\ pushed' = IF r.ok THEN Append(pushed, value) ELSE pushed
        /\ UNCHANGED <<head, popped, res, poolVars, bcastVars, seqVars, callVars, transportVars, clockVars, txVars, ringVars>>
        /\ othersIdle

\* MasterCore::run, the batch loop: for _ in 0..128 { pop, set_pixel or break }
RECURSIVE drain_batch(_, _)
drain_batch(st, n) ==
    IF n = 0 THEN st
    ELSE LET r == CHOOSE x \in {spsc_pop(tail, st.head, buffer)} : TRUE
         IN  IF r.ok
             THEN drain_batch([head |-> r.head,
                               canvas |-> set_pixel(st.canvas, r.val.x, r.val.y, r.val.color),
                               popped |-> Append(st.popped, r.val)], n - 1)
             ELSE st

\* A drain that may run at any point of the master's loop, also inside the copy.
MasterDrainInterleaved ==
    /\ \E st \in {drain_batch([head |-> head, canvas |-> canvas, popped |-> popped],
                              MASTER_BATCH_DRAIN)} :
        /\ head' = st.head
        /\ canvas' = st.canvas
        /\ popped' = st.popped
    /\ UNCHANGED <<tail, buffer, pushed, res, bcastVars>>
    /\ UNCHANGED <<BUFFER_POOL, COMPRESSED_BUFFER_POOL, COMPRESSED_LENS, ACTIVE_INDEX,
                   master_thread, pubs, snap>>
    /\ othersIdle
\* MasterCore::run, the drain of the worker's queue in one turn of the loop
MasterDrain ==
    /\ master_thread.pc = "idle"
    /\ \E st \in {drain_batch([head |-> head, canvas |-> canvas, popped |-> popped],
                              MASTER_BATCH_DRAIN)} :
        /\ head' = st.head
        /\ canvas' = st.canvas
        /\ popped' = st.popped
    /\ UNCHANGED <<tail, buffer, pushed, res, bcastVars>>
    /\ UNCHANGED <<BUFFER_POOL, COMPRESSED_BUFFER_POOL, COMPRESSED_LENS, ACTIVE_INDEX,
                   master_thread, pubs, snap>>
    /\ othersIdle

\* A next slot that is masked but not advanced: the active slot itself.
NextActiveSame(current_active) == BitAnd(current_active, BUFFER_SIZE - 1)
\* next_active = (current_active + 1) & 15
NextActive(current_active) == BitAnd(current_active + 1, BUFFER_SIZE - 1)

\* MasterCore::run, the broadcast threshold has passed: load ACTIVE_INDEX,
\* compute next_active and enter snapshot_to_pool(next_active)
MPublishBegin ==
    /\ master_thread.pc = "idle"
    /\ pubs < MaxPub
    /\ \E next_active \in {NextActive(ACTIVE_INDEX)} :
        /\ master_thread' = [pc |-> "copy", next_active |-> next_active, i |-> 0,
                             compressed_len |-> 0]
        /\ snap' = [snap EXCEPT ![next_active] = canvas]
    /\ UNCHANGED <<canvas, BUFFER_POOL, COMPRESSED_BUFFER_POOL, COMPRESSED_LENS,
                   ACTIVE_INDEX, pubs>>
    /\ UNCHANGED <<spscVars, bcastVars>>
    /\ othersIdle

\* Canvas::snapshot_to_pool, one byte of copy_nonoverlapping
MCopyByte ==
    /\ master_thread.pc = "copy"
    /\ BUFFER_POOL' = [BUFFER_POOL EXCEPT
                          ![master_thread.next_active][master_thread.i] = canvas[master_thread.i]]
    /\ master_thread' = IF master_thread.i + 1 = CANVAS_SIZE
                        THEN [master_thread EXCEPT !.pc = "compress", !.i = 0]
                        ELSE [master_thread EXCEPT !.i = @ + 1]
    /\ UNCHANGED <<canvas, COMPRESSED_BUFFER_POOL, COMPRESSED_LENS, ACTIVE_INDEX, pubs, snap>>
    /\ UNCHANGED <<spscVars, bcastVars>>
    /\ othersIdle

\* A compression step that already stores ACTIVE_INDEX, before the length is written.
MCompressPublishing ==
    /\ master_thread.pc = "compress"
    /\ \E simd \in SimdPaths :
       \E r \in {rle_compress(BUFFER_POOL[master_thread.next_active],
                              COMPRESSED_BUFFER_POOL[master_thread.next_active], simd)} :
        /\ COMPRESSED_BUFFER_POOL' =
               [COMPRESSED_BUFFER_POOL EXCEPT ![master_thread.next_active] = r.dst]
        /\ master_thread' = [master_thread EXCEPT !.pc = "len", !.compressed_len = r.len]
    /\ ACTIVE_INDEX' = master_thread.next_active
    /\ pubs' = pubs + 1
    /\ UNCHANGED <<canvas, BUFFER_POOL, COMPRESSED_LENS, snap>>
    /\ UNCHANGED <<spscVars, bcastVars>>
    /\ othersIdle
\* MasterCore::run: let compressed_len = rle_compress(src, dst)
MCompress ==
    /\ master_thread.pc = "compress"
    /\ \E simd \in SimdPaths :
       \E r \in {rle_compress(BUFFER_POOL[master_thread.next_active],
                              COMPRESSED_BUFFER_POOL[master_thread.next_active], simd)} :
        /\ COMPRESSED_BUFFER_POOL' =
               [COMPRESSED_BUFFER_POOL EXCEPT ![master_thread.next_active] = r.dst]
        /\ master_thread' = [master_thread EXCEPT !.pc = "len", !.compressed_len = r.len]
    /\ UNCHANGED <<canvas, BUFFER_POOL, COMPRESSED_LENS, ACTIVE_INDEX, pubs, snap>>
    /\ UNCHANGED <<spscVars, bcastVars>>
    /\ othersIdle

\* MasterCore::run: COMPRESSED_LENS[next_active] = compressed_len
MStoreLen ==
    /\ master_thread.pc = "len"
    /\ COMPRESSED_LENS' =
           [COMPRESSED_LENS EXCEPT ![master_thread.next_active] = master_thread.compressed_len]
    /\ master_thread' = [master_thread EXCEPT !.pc = "store", !.compressed_len = 0]
    /\ UNCHANGED <<canvas, BUFFER_POOL, COMPRESSED_BUFFER_POOL, ACTIVE_INDEX, pubs, snap>>
    /\ UNCHANGED <<spscVars, bcastVars>>
    /\ othersIdle

\* MasterCore::run: ACTIVE_INDEX.store(next_active, Release)
MStoreActive ==
    /\ master_thread.pc = "store"
    /\ ACTIVE_INDEX' = master_thread.next_active
    /\ pubs' = pubs + 1
    /\ master_thread' = IdleMaster
    /\ UNCHANGED <<canvas, BUFFER_POOL, COMPRESSED_BUFFER_POOL, COMPRESSED_LENS, snap>>
    /\ UNCHANGED <<spscVars, bcastVars>>
    /\ othersIdle

\* A test that forgets the first tick.
IsFullTickNoFirst(ticks) == ticks % FULL_BROADCAST_INTERVAL = 0
\* self.broadcast_ticks == 1 || self.broadcast_ticks % 60 == 0
IsFullTick(ticks) == ticks = 1 \/ ticks % FULL_BROADCAST_INTERVAL = 0

\* for (_, conn) in connections { for chunk in payload.chunks(..) { dgram_send } }:
\* every connection is handed the datagrams of one payload of the given kind;
\* a payload of no bytes has no chunk and queues nothing.
SendAll(kind, payload) ==
    /\ rx' = [c \in ConnIds |->
                 IF c \in connections /\ payload # << >>
                 THEN Append(rx[c], kind) ELSE rx[c]]
    /\ client' = [c \in ConnIds |->
                     IF c \in connections /\ payload # << >>
                     THEN client_apply(client[c], kind, chunks(payload)) ELSE client[c]]

\* handle_broadcast: load ACTIVE_INDEX (Relaxed); on a change record it, count
\* the tick and choose between the full and the diff branch
WLoadActive ==
    /\ worker_thread.pc = "idle"
    /\ ACTIVE_INDEX # last_broadcast_index
    /\ \E current_active \in {ACTIVE_INDEX} :
        /\ last_broadcast_index' = current_active
        /\ broadcast_ticks' = broadcast_ticks + 1
        /\ worker_thread' = [pc |-> IF IsFullTick(broadcast_ticks + 1)
                                    THEN "full_len" ELSE "diff_scan",
                             current_active |-> current_active, i |-> 0,
                             compressed_len |-> 0, loaded |-> pubs]
        /\ diff_buffer' = IF IsFullTick(broadcast_ticks + 1) THEN diff_buffer ELSE << >>
        /\ wsnap' = BUFFER_POOL[current_active]
    /\ UNCHANGED <<last_sent_canvas, connections, rx, client>>
    /\ UNCHANGED <<spscVars, poolVars>>
    /\ othersIdle

\* handle_broadcast, full branch: compressed_len = COMPRESSED_LENS[current_active]
WReadLen ==
    /\ worker_thread.pc = "full_len"
    /\ worker_thread' = [worker_thread EXCEPT
                            !.pc = "full_send",
                            !.compressed_len = COMPRESSED_LENS[worker_thread.current_active]]
    /\ UNCHANGED <<last_broadcast_index, last_sent_canvas, broadcast_ticks, diff_buffer,
                   connections, wsnap, rx, client>>
    /\ UNCHANGED <<spscVars, poolVars>>
    /\ othersIdle

\* handle_broadcast, full branch: send data[..compressed_len] to every connection
WSendFull ==
    /\ worker_thread.pc = "full_send"
    /\ SendAll("full", Slice(COMPRESSED_BUFFER_POOL[worker_thread.current_active],
                             worker_thread.compressed_len))
    /\ worker_thread' = [worker_thread EXCEPT !.pc = "full_copy", !.i = 0,
                                              !.compressed_len = 0]
    /\ UNCHANGED <<last_broadcast_index, last_sent_canvas, broadcast_ticks, diff_buffer,
                   connections, wsnap>>
    /\ UNCHANGED <<spscVars, poolVars>>
    /\ othersIdle

\* handle_broadcast, full branch: one byte of last_sent_canvas.copy_from_slice
WCopyByte ==
    /\ worker_thread.pc = "full_copy"
    /\ last_sent_canvas' =
           [last_sent_canvas EXCEPT
               ![worker_thread.i] = BUFFER_POOL[worker_thread.current_active][worker_thread.i]]
    /\ worker_thread' = IF worker_thread.i + 1 = CANVAS_SIZE
                        THEN [IdleWorker EXCEPT !.loaded = worker_thread.loaded]
                        ELSE [worker_thread EXCEPT !.i = @ + 1]
    /\ UNCHANGED <<last_broadcast_index, broadcast_ticks, diff_buffer, connections, wsnap,
                   rx, client>>
    /\ UNCHANGED <<spscVars, poolVars>>
    /\ othersIdle

\* handle_broadcast, diff branch: one turn of for i in 0..CANVAS_SIZE
WDiffByte ==
    /\ worker_thread.pc = "diff_scan"
    /\ \E new_pixel \in {BUFFER_POOL[worker_thread.current_active][worker_thread.i]} :
        IF last_sent_canvas[worker_thread.i] # new_pixel
        THEN /\ diff_buffer' = diff_buffer \o to_le_bytes(worker_thread.i) \o <<new_pixel>>
             /\ last_sent_canvas' = [last_sent_canvas EXCEPT ![worker_thread.i] = new_pixel]
        ELSE UNCHANGED <<diff_buffer, last_sent_canvas>>
    /\ worker_thread' = IF worker_thread.i + 1 = CANVAS_SIZE
                        THEN [worker_thread EXCEPT !.pc = "diff_send", !.i = 0]
                        ELSE [worker_thread EXCEPT !.i = @ + 1]
    /\ UNCHANGED <<last_broadcast_index, broadcast_ticks, connections, wsnap, rx, client>>
    /\ UNCHANGED <<spscVars, poolVars>>
    /\ othersIdle

\* handle_broadcast, diff branch: if !diff_buffer.is_empty() send it to every connection
WSendDiff ==
    /\ worker_thread.pc = "diff_send"
    /\ SendAll("diff", diff_buffer)
    /\ worker_thread' = [IdleWorker EXCEPT !.loaded = worker_thread.loaded]
    /\ UNCHANGED <<last_broadcast_index, last_sent_canvas, broadcast_ticks, diff_buffer,
                   connections, wsnap>>
    /\ UNCHANGED <<spscVars, poolVars>>
    /\ othersIdle

\* A client's handshake completes while the worker handles its packets (between
\* two calls of handle_broadcast): its connection is in the worker's table and
\* established from now on.  Connections are numbered in their order of arrival.
Establish(c) ==
    /\ worker_thread.pc = "idle"
    /\ c \notin connections
    /\ \A earlier \in 1 .. (c - 1) : earlier \in connections
    /\ connections' = connections \cup {c}
    /\ UNCHANGED <<worker_thread, last_broadcast_index, last_sent_canvas, broadcast_ticks,
                   diff_buffer, wsnap, rx, client>>
    /\ UNCHANGED <<spscVars, poolVars>>
    /\ othersIdle

InitPool == SpscNew /\ ThreadsIdle /\ IngressNew /\ PoolNew /\ BroadcastNew /\ SeqlockNew
    /\ CallNew /\ TransportNew /\ ClockNew /\ TxNew /\ RingNew
NextPool ==
    \/ \E v \in PoolVals : WorkerEnqueue(v)
    \/ MasterDrain
    \/ MPublishBegin
    \/ MCopyByte
    \/ MCompress
    \/ MStoreLen
    \/ MStoreActive
    \/ WLoadActive
    \/ WReadLen
    \/ WSendFull
    \/ WCopyByte
    \/ WDiffByte
    \/ WSendDiff
    \/ \E c \in ConnIds : Establish(c)
SpecPool == InitPool /\ [][NextPool]_vars

(***************************************************************************)
(* The seqlock around the drain (master.rs) and a seqlock reader           *)
(* (broadcast.rs), step by step.                                           *)
(***************************************************************************)
\* The pixel writes a worker enqueues in this specification: the worker does
\* not bounds-check, so writes outside the canvas reach the master too.
SeqlockVals ==
    {PixelWrite(CANVAS_WIDTH - 1, CANVAS_HEIGHT - 1, NumColors - 1),
     PixelWrite(CANVAS_WIDTH, 0, NumColors - 1),
     PixelWrite(0, CANVAS_HEIGHT, NumColors - 1)}

ReaderCopying == reader.pc \in {"copy", "check"}

\* MasterCore::run, top of the loop: seq = CANVAS_SEQ.load();
\* CANVAS_SEQ.store(seq.wrapping_add(1))
MSeqBegin ==
    /\ master_thread.pc = "idle"
    /\ CANVAS_SEQ < MaxSeq
    /\ master_seq' = CANVAS_SEQ
    /\ CANVAS_SEQ' = wrapping_add(CANVAS_SEQ, 1)
    /\ master_thread' = [master_thread EXCEPT !.pc = "drain", !.i = 0]
    /\ UNCHANGED <<reader, rdirty>>
    /\ UNCHANGED <<canvas, BUFFER_POOL, COMPRESSED_BUFFER_POOL, COMPRESSED_LENS,
                   ACTIVE_INDEX, pubs, snap>>
    /\ UNCHANGED <<spscVars, bcastVars, threadVars, ingressVars, callVars, transportVars, clockVars, txVars, ringVars>>

\* MasterCore::run, one turn of for _ in 0..128: pop and set_pixel, or break
MDrainPop ==
    /\ master_thread.pc = "drain"
    /\ \E r \in {spsc_pop(tail, head, buffer)} :
        IF master_thread.i < MASTER_BATCH_DRAIN /\ r.ok
        THEN /\ head' = r.head
             /\ popped' = Append(popped, r.val)
             /\ canvas' = set_pixel(canvas, r.val.x, r.val.y, r.val.color)
             /\ rdirty' = (rdirty \/ (ReaderCopying /\ canvas' # canvas))
             /\ master_thread' = [master_thread EXCEPT !.i = @ + 1]
        ELSE /\ master_thread' = [master_thread EXCEPT !.pc = "seq_end", !.i = 0]
             /\ UNCHANGED <<head, popped, canvas, rdirty>>
    /\ UNCHANGED <<CANVAS_SEQ, master_seq, reader>>
    /\ UNCHANGED <<BUFFER_POOL, COMPRESSED_BUFFER_POOL, COMPRESSED_LENS, ACTIVE_INDEX,
                   pubs, snap>>
    /\ UNCHANGED <<tail, buffer, pushed, res, bcastVars, threadVars, ingressVars, callVars, transportVars, clockVars, txVars, ringVars>>

\* MasterCore::run, after the drain: CANVAS_SEQ.store(seq.wrapping_add(1))
MSeqEnd ==
    /\ master_thread.pc = "seq_end"
    /\ CANVAS_SEQ' = wrapping_add(master_seq, 1)
    /\ master_thread' = [master_thread EXCEPT !.pc = "idle"]
    /\ UNCHANGED <<master_seq, reader, rdirty>>
    /\ UNCHANGED <<canvas, BUFFER_POOL, COMPRESSED_BUFFER_POOL, COMPRESSED_LENS,
                   ACTIVE_INDEX, pubs, snap>>
    /\ UNCHANGED <<spscVars, bcastVars, threadVars, ingressVars, callVars, transportVars, clockVars, txVars, ringVars>>

readerFrame ==
    /\ UNCHANGED <<CANVAS_SEQ, master_seq>>
    /\ UNCHANGED <<canvas, COMPRESSED_BUFFER_POOL, COMPRESSED_LENS, master_thread, pubs, snap>>
    /\ UNCHANGED <<spscVars, bcastVars, threadVars, ingressVars, callVars, transportVars, clockVars, txVars, ringVars>>

\* BroadcastCore::run: seq = CANVAS_SEQ.load(); spin while it is odd, else load
\* ACTIVE_INDEX, compute next_active and enter snapshot_to_pool(next_active)
RLoadSeq ==
    /\ reader.pc = "start"
    /\ \E seq \in {CANVAS_SEQ} :
        IF BitAnd(seq, 1) # 0
        THEN UNCHANGED <<reader, rdirty>>
        ELSE /\ reader' = [pc |-> "copy", seq |-> seq,
                           next_active |-> (ACTIVE_INDEX + 1) % BUFFER_SIZE, i |-> 0]
             /\ rdirty' = FALSE
    /\ UNCHANGED <<BUFFER_POOL, ACTIVE_INDEX>>
    /\ readerFrame

\* BroadcastCore::run, snapshot_to_pool: one byte of copy_nonoverlapping
RCopyByte ==
    /\ reader.pc = "copy"
    /\ BUFFER_POOL' = [BUFFER_POOL EXCEPT ![reader.next_active][reader.i] = canvas[reader.i]]
    /\ reader' = IF reader.i + 1 = CANVAS_SIZE
                 THEN [reader EXCEPT !.pc = "check", !.i = 0]
                 ELSE [reader EXCEPT !.i = @ + 1]
    /\ UNCHANGED <<ACTIVE_INDEX, rdirty>>
    /\ readerFrame

\* BroadcastCore::run: seq_end = CANVAS_SEQ.load(); if seq == seq_end the copy
\* is accepted and ACTIVE_INDEX stored, else the loop starts again
RCheck ==
    /\ reader.pc = "check"
    /\ \E seq_end \in {CANVAS_SEQ} :
        IF reader.seq = seq_end
        THEN /\ ACTIVE_INDEX' = reader.next_active
             /\ reader' = [reader EXCEPT !.pc = "accepted"]
        ELSE /\ reader' = IdleReader
             /\ UNCHANGED ACTIVE_INDEX
    /\ UNCHANGED <<BUFFER_POOL, rdirty>>
    /\ readerFrame

\* BroadcastCore::run: the outer loop sleeps and starts the next round
RSleep ==
    /\ reader.pc = "accepted"
    /\ reader' = IdleReader
    /\ UNCHANGED <<BUFFER_POOL, ACTIVE_INDEX, rdirty>>
    /\ readerFrame

InitSeqlock == InitPool
NextSeqlock ==
    \/ \E v \in SeqlockVals : WorkerEnqueue(v)
    \/ MSeqBegin
    \/ MDrainPop
    \/ MSeqEnd
    \/ MPublishBegin
    \/ MCopyByte
    \/ MCompress
    \/ MStoreLen
    \/ MStoreActive
    \/ RLoadSeq
    \/ RCopyByte
    \/ RCheck
    \/ RSleep
SpecSeqlock == InitSeqlock /\ [][NextSeqlock]_vars

(***************************************************************************)
(* C1, C2: the ring used by one thread at a time.                          *)
(***************************************************************************)
Unpopped == Len(pushed) - Len(popped)

\* C1: on a fresh ring the values returned by pop are a prefix of the values
\* successfully pushed, in push order (none lost, duplicated or reordered),
\* and a pop returns None exactly when every pushed value was popped before.
C1_SpscFifo ==
    /\ Len(popped) <= Len(pushed)
    /\ popped = SubSeq(pushed, 1, Len(popped))
    /\ (res.op = "pop" /\ ~res.ok) => Len(popped) = Len(pushed)
    /\ (res.op = "pop" /\ res.ok) =>
          /\ Len(popped) >= 1
          /\ res.val = pushed[Len(popped)]

\* More values than the ring has slots went through it, and the last pop
\* found it empty.
C1_Witness ==
    /\ Len(popped) > SPSC_CAPACITY
    /\ res.op = "pop"
    /\ ~res.ok

C2_CapacityInv ==
    /\ Unpopped <= SPSC_CAPACITY
    /\ (res.op = "push" /\ ~res.ok) => Unpopped = SPSC_CAPACITY
    /\ (res.op = "push" /\ res.ok) =>
          /\ Len(pushed) >= 1
          /\ pushed[Len(pushed)] = res.val

C2_FailedPushFrame ==
    (res'.op = "push" /\ ~res'.ok) =>
        /\ tail' = tail
        /\ head' = head
        /\ buffer' = buffer
        /\ pushed' = pushed

\* C2: a push fails if and only if exactly SPSC_CAPACITY pushed values are
\* still unpopped (so after one pop on a full ring one more push succeeds and
\* the next fails); a failed push hands the value back and changes neither
\* the cursors nor any slot.
C2_SpscCapacity == []C2_CapacityInv /\ [][C2_FailedPushFrame]_vars

\* A push failed on a ring that was refilled after a pop.
C2_Witness ==
    /\ res.op = "push"
    /\ ~res.ok
    /\ Len(popped) >= 1

(***************************************************************************)
(* C3: the ring used by one producer thread and one consumer thread.       *)
(***************************************************************************)
ProdInSlot == prod.pc = "writing"
ConsInSlot == cons.pc = "reading"

\* C3: with the producer and the consumer interleaved at every cursor load,
\* slot access and cursor store, the consumer reads a slot only after the
\* producer's write of it is complete (what it reads is the next pushed
\* value), the producer writes a slot only after the consumer finished
\* reading its previous value, the two are never inside the same slot, and
\* 0 <= tail - head <= SPSC_CAPACITY.
C3_SpscConcurrent ==
    /\ wrapping_sub(tail, head) \in 0 .. SPSC_CAPACITY
    /\ wrapping_sub(tail, head) = Unpopped
    /\ popped = SubSeq(pushed, 1, Len(popped))
    /\ cons.pc \in {"reading", "publish"} =>
          /\ Len(popped) < Len(pushed)
          /\ cons.val = pushed[Len(popped) + 1]
    /\ prod.pc \in {"writing", "publish"} =>
          wrapping_sub(prod.cur, head) < SPSC_CAPACITY
    /\ (ProdInSlot /\ ConsInSlot) => SpscIndex(prod.cur) # SpscIndex(cons.cur)

\* Both threads are inside a slot at once, after every slot was used once.
C3_Witness ==
    /\ ProdInSlot
    /\ ConsInSlot
    /\ Len(popped) >= SPSC_CAPACITY

(***************************************************************************)
(* C6, C7, C8: cooldown enforcement on the worker's ingress path.          *)
(***************************************************************************)
\* C6: once a user's write set its bit in the master bitset and in the
\* wheel's current bucket (at any wheel position), the user is on cooldown
\* after each of the next TIMING_WHEEL_TICKS - 1 ticks and off cooldown after
\* the TIMING_WHEEL_TICKS-th, whatever other users add in between; a user
\* with no write is off cooldown.
C6_WheelExpiry ==
    \A u \in UserIds :
        is_on_cooldown(cooldown_master, u) <=> age[u] \in 0 .. (TIMING_WHEEL_TICKS - 1)

\* One user's cooldown ran out while another's, added at a later tick and at
\* another wheel position, is still running.
C6_Witness ==
    \E u, v \in UserIds :
        /\ age[u] = TIMING_WHEEL_TICKS
        /\ ~is_on_cooldown(cooldown_master, u)
        /\ age[v] \in 1 .. (TIMING_WHEEL_TICKS - 1)
        /\ is_on_cooldown(cooldown_master, v)
        /\ timing_wheel.current_tick # 0

\* C7: between two consecutive writes of one user-id that the worker hands
\* to the ring at least TIMING_WHEEL_TICKS ticks occur; several pixels of one
\* user in one packet lead to at most one enqueue.
C7_OneWritePerWindow ==
    \A u \in UserIds : gap[u] >= TIMING_WHEEL_TICKS

\* More writes were enqueued than there are users: one user wrote twice.
C7_Witness ==
    /\ Len(pushed) > NumUsers
    /\ \E u \in UserIds : age[u] = 0

\* C8: a pixel of a user whose cooldown bit is set is dropped: the loop's
\* turn for it pushes nothing and changes neither the ring, the cooldown
\* bitset nor any bucket of the timing wheel (the user stays in the bucket
\* it was put in), in whatever state the worker is.
C8_RejectedWriteFrame ==
    \A u \in UserIds, d \in Dgrams :
        is_on_cooldown(cooldown_master, u) => pixel_turn(WorkerState, u, d) = WorkerState

\* A user is on cooldown since an earlier tick: its bit lies in a bucket that
\* is not the current one, and the ring holds the write that put it there.
C8_Witness ==
    \E u \in UserIds :
        /\ is_on_cooldown(cooldown_master, u)
        /\ age[u] >= 1
        /\ ~is_on_cooldown(timing_wheel.wheel[timing_wheel.current_tick], u)
        /\ Unpopped >= 1

(***************************************************************************)
(* Snapshot publication and broadcast.                                     *)
(***************************************************************************)
\* compressed[i][..compressed_len[i]] as the bytes a reader takes from slot i
CompressedSlice(i) == Slice(COMPRESSED_BUFFER_POOL[i], COMPRESSED_LENS[i])
\* The RLE encoding of a raw buffer, computed into a fresh buffer
RleOf(raw) ==
    LET r == rle_compress(raw, ZeroCompressed, "scalar") IN Slice(r.dst, r.len)
\* Slot i holds, whole, the canvas of its last publication and its encoding.
SlotComplete(i) ==
    /\ BUFFER_POOL[i] = snap[i]
    /\ CompressedSlice(i) = RleOf(BUFFER_POOL[i])
    /\ rle_decompress(CompressedSlice(i), ZeroCanvas).dst = BUFFER_POOL[i]

C4_ActiveComplete == pubs > 0 => SlotComplete(ACTIVE_INDEX)
C4_StoreLast ==
    ACTIVE_INDEX' # ACTIVE_INDEX =>
        /\ BUFFER_POOL[ACTIVE_INDEX'] = canvas
        /\ CompressedSlice(ACTIVE_INDEX') = RleOf(canvas)
\* C4: the master stores ACTIVE_INDEX = i only after the raw copy into pool[i],
\* the compression into compressed[i] and the write of compressed_len[i] are
\* complete; so whenever a published ACTIVE_INDEX = i can be observed, pool[i]
\* is one whole canvas snapshot and compressed[i][..compressed_len[i]] is the
\* RLE encoding of exactly that buffer (and decodes back to it).
C4_PublicationOrder == []C4_ActiveComplete /\ [][C4_StoreLast]_vars
\* A worker has observed a slot that was published a second time and holds a
\* canvas of two runs.
C4_Witness ==
    /\ pubs > BUFFER_SIZE
    /\ worker_thread.pc # "idle"
    /\ worker_thread.current_active = ACTIVE_INDEX
    /\ BUFFER_POOL[ACTIVE_INDEX][0] # BUFFER_POOL[ACTIVE_INDEX][CANVAS_SIZE - 1]

WorkerReading == worker_thread.pc \in {"full_len", "full_send", "full_copy", "diff_scan"}
MasterWriting == master_thread.pc \in {"copy", "compress", "len"}
\* C5: for every interleaving, while a worker that loaded ACTIVE_INDEX = i is
\* still reading pool[i].raw or compressed[i] the master does not write slot i.
C5_NoTornRead ==
    WorkerReading =>
        ~(MasterWriting /\ master_thread.next_active = worker_thread.current_active)

\* C9: after every broadcast service, full or diff, the worker's
\* last_sent_canvas equals the snapshot it observed, and so does the canvas
\* rebuilt by a connection whose payloads began with a full snapshot.
C9_ClientReconstruction ==
    (worker_thread.pc = "idle" /\ broadcast_ticks > 0) =>
        /\ last_sent_canvas = wsnap
        /\ \A c \in ConnIds :
               (rx[c] # << >> /\ rx[c][1] = "full") => client[c] = wsnap

\* C10: the first payload queued to a connection after it is established is a
\* full snapshot, the later ones are full exactly at every F-th position.
C10_FullCadence ==
    \A c \in ConnIds : \A k \in 1 .. Len(rx[c]) :
        (rx[c][k] = "full") <=> (k = 1 \/ k % FULL_BROADCAST_INTERVAL = 0)

(***************************************************************************)
(* The seqlock.                                                            *)
(***************************************************************************)
InDrainBatch == master_thread.pc \in {"drain", "seq_end"}
\* C11: CANVAS_SEQ is odd at every moment the master is inside a drain batch
\* and even at every moment it is outside one, publication included.
C11_SeqlockParity == (CANVAS_SEQ % 2 = 1) <=> InDrainBatch

\* C12: a reader that accepts its copy (seq even before, the same value after)
\* has copied while no set_pixel of the master changed the canvas.
C12_SeqlockReader == reader.pc = "accepted" => ~rdirty

(***************************************************************************)
(* The hand-off of writes from a worker to the canvas.                     *)
(***************************************************************************)
\* The canvas after the writes ws were applied, in order, to the canvas cv.
RECURSIVE apply_writes(_, _)
apply_writes(cv, ws) ==
    IF ws = << >> THEN cv
    ELSE apply_writes(set_pixel(cv, Head(ws).x, Head(ws).y, Head(ws).color), Tail(ws))
\* The writes that wait in the ring, oldest first.
RingContents ==
    [k \in 1 .. wrapping_sub(tail, head) |-> buffer[SpscIndex(wrapping_add(head, k - 1))]]
\* C13: every write a worker pushed is either still in the ring or was popped
\* and applied exactly once; the writes are applied in push order, so the
\* last applied write to a pixel gives its colour.
C13_AppliedOnceInOrder ==
    /\ pushed = popped \o RingContents
    /\ canvas = apply_writes(ZeroCanvas, popped)
    /\ popped # << >> =>
           LET w == popped[Len(popped)]
           IN  (w.x < CANVAS_WIDTH /\ w.y < CANVAS_HEIGHT) =>
                   canvas[w.y * CANVAS_WIDTH + w.x] = w.color
C13_EventuallyPopped ==
    \A n \in 1 .. MaxEnq : (Len(pushed) >= n) ~> (Len(popped) >= n)
\* C13, with the master running: the above in every state, and every pushed
\* write is popped in the end.
C13_PushedIsApplied == []C13_AppliedOnceInOrder /\ C13_EventuallyPopped
\* The same worker's second write to a pixel was applied over its first one,
\* of the other colour, while a third write waits in the ring.
C13_Witness ==
    /\ Len(popped) >= 2
    /\ popped[1].x = popped[2].x /\ popped[1].y = popped[2].y
    /\ popped[1].color # popped[2].color
    /\ Len(pushed) > Len(popped)

(***************************************************************************)
(* Canvas::snapshot_to_pool inside the master loop.                        *)
(***************************************************************************)
\* While the copy runs the bytes already copied are the canvas's, which is the
\* canvas of the moment the call began; once it has returned the whole slot is.
C14_CopyState ==
    /\ master_thread.pc = "copy" =>
           /\ canvas = snap[master_thread.next_active]
           /\ \A j \in 0 .. (master_thread.i - 1) :
                  BUFFER_POOL[master_thread.next_active][j] = canvas[j]
    /\ master_thread.pc \in {"compress", "len", "store"} =>
           /\ canvas = snap[master_thread.next_active]
           /\ BUFFER_POOL[master_thread.next_active] = canvas
\* No step taken while the copy runs changes the canvas or another slot.
C14_CopyFrame ==
    master_thread.pc = "copy" =>
        /\ canvas' = canvas
        /\ \A k \in 0 .. (BUFFER_SIZE - 1) :
               k # master_thread.next_active => BUFFER_POOL'[k] = BUFFER_POOL[k]
\* C14: snapshot_to_pool(k) makes pool[k].raw byte-identical to the canvas,
\* changes no other slot and not the canvas; in the master loop no set_pixel
\* falls inside the copy, so the snapshot is the canvas of one instant.
C14_SnapshotToPool == []C14_CopyState /\ [][C14_CopyFrame]_vars
\* A copy of a painted canvas has just finished while another slot holds a
\* different snapshot and a write waits in the ring.
C14_Witness ==
    /\ master_thread.pc = "compress"
    /\ canvas # ZeroCanvas
    /\ \E k \in 0 .. (BUFFER_SIZE - 1) :
           k # master_thread.next_active /\ BUFFER_POOL[k] # canvas
    /\ Len(pushed) > Len(popped)

(***************************************************************************)
(* Canvas::set_pixel.                                                      *)
(***************************************************************************)
\* C15: set_pixel(x, y, c) with x < W and y < H changes exactly the byte at
\* y*W + x to c and leaves every other byte unchanged; with x >= W or y >= H
\* it changes no byte.
C15_SetPixelFrame ==
    [][LET call == set_pixel_call'
           inside == call.x < CANVAS_WIDTH /\ call.y < CANVAS_HEIGHT
       IN  /\ DOMAIN canvas' = DOMAIN canvas
           /\ \A i \in 0 .. (CANVAS_SIZE - 1) :
                  canvas'[i] = IF inside /\ i = call.y * CANVAS_WIDTH + call.x
                               THEN call.color ELSE canvas[i]]_vars
\* A call past the end of a row on a painted canvas, where a wrapped index
\* would have hit a byte of another colour.
C15_Witness ==
    /\ set_pixel_call.x >= CANVAS_WIDTH
    /\ set_pixel_call.y < CANVAS_HEIGHT
    /\ canvas # ZeroCanvas
    /\ canvas[(set_pixel_call.y * CANVAS_WIDTH + set_pixel_call.x) % CANVAS_SIZE]
           # set_pixel_call.color

(***************************************************************************)
(* The connection table of one worker (transport.rs).                      *)
(***************************************************************************)
\* C16: no two entries of the connection table carry the same user-id, and
\* no user-id is both in the free list and assigned to a connection.
C16_UserIdUnique ==
    LET conns == transport.connections
    IN  /\ \A a, b \in DOMAIN conns : a # b => conns[a].user_id # conns[b].user_id
        /\ \A a \in DOMAIN conns : conns[a].user_id \notin SeqRange(transport.free_user_ids)
\* The table is full again after a cleanup gave a user-id back, and the
\* last packet asked for one more connection and was refused.
C16_Witness ==
    /\ Cardinality(DOMAIN transport.connections) = MAX_CONNECTIONS
    /\ scids_drawn > MAX_CONNECTIONS
    /\ incoming.accept = "refused"

\* The table never holds more than MAX_CONNECTIONS connections.
C17_Capacity == Cardinality(DOMAIN transport.connections) <= MAX_CONNECTIONS
\* A call of accept_connection with an empty free list gives the error before
\* quiche::accept and changes nothing of the transport.
C17_Refused ==
    (incoming'.op = "handle_incoming" /\ incoming'.accept # "none"
     /\ transport.free_user_ids = << >>) =>
        /\ incoming'.accept = "refused"
        /\ incoming'.id = NoCid
        /\ transport' = transport
\* C17: with an empty free list accept_connection returns an error without
\* calling quiche::accept and leaves the table, the reverse map and the free
\* list unchanged; the live connections never exceed MAX_CONNECTIONS.
C17_CapacityRejection == []C17_Capacity /\ [][C17_Refused]_vars
\* A full table has just refused a new connection.
C17_Witness ==
    /\ incoming.op = "handle_incoming"
    /\ incoming.accept = "refused"
    /\ transport.free_user_ids = << >>
    /\ Cardinality(DOMAIN transport.connections) = MAX_CONNECTIONS

\* C18: cleanup_connections removes exactly the closed connections; each
\* removed user-id is in the free list exactly once, the reverse map has no
\* entry for a removed connection, and every connection that is not closed
\* keeps its entry, its user-id and its reverse-map entry.
C18_CleanupExact ==
    [][incoming'.op = "cleanup_connections" =>
        LET conns == transport.connections
            closed == ClosedIds(transport)
            free == transport'.free_user_ids
        IN  /\ DOMAIN transport'.connections = DOMAIN conns \ closed
            /\ \A k \in DOMAIN conns \ closed : transport'.connections[k] = conns[k]
            /\ \A k \in closed :
                   /\ Cardinality({j \in 1 .. Len(free) : free[j] = conns[k].user_id}) = 1
                   /\ conns[k].dcid \notin DOMAIN transport'.cid_map
                   /\ \A d \in DOMAIN transport'.cid_map : transport'.cid_map[d] # k
            /\ \A d \in DOMAIN transport.cid_map :
                   transport.cid_map[d] \in DOMAIN conns \ closed =>
                       /\ d \in DOMAIN transport'.cid_map
                       /\ transport'.cid_map[d] = transport.cid_map[d]
            /\ \A u \in SeqRange(transport.free_user_ids) : u \in SeqRange(free)
            /\ Len(free) = Len(transport.free_user_ids) + Cardinality(closed)]_vars
\* A cleanup ran on a table with an open connection: the free list starts
\* with a user-id that a closed connection gave back.
C18_Witness ==
    /\ incoming.op = "cleanup_connections"
    /\ DOMAIN transport.connections # {}
    /\ DOMAIN transport.cid_map # {}
    /\ transport.free_user_ids # << >>
    /\ Head(transport.free_user_ids) # NewTransportState.free_user_ids[1]

(***************************************************************************)
(* Datagrams of one received packet (transport.rs, worker.rs).             *)
(***************************************************************************)
\* The well-formed datagrams of a packet, in their order, as pixels.
WellFormed(dgrams) ==
    LET five == SelectSeq(dgrams, LAMBDA d : d.len = 5)
    IN  [j \in 1 .. Len(five) |-> PixelWrite(five[j].x, five[j].y, five[j].color)]
\* What the worker's loop over the pixels can change.
IngressState == <<cooldown_master, timing_wheel, tail, buffer, pushed>>
\* C19: a datagram that is not 5 bytes long yields no pixel and changes
\* neither the cooldown bitset, the timing wheel nor the ring, and the
\* well-formed datagrams after it are still processed; a 5-byte datagram is
\* emitted with the user-id of its connection; a connection that is not
\* established yields nothing.
C19_Datagrams ==
    [][incoming'.op = "handle_incoming" =>
        LET call == incoming'
            wf == WellFormed(call.dgrams)
            known == call.id # NoCid
            est == known /\ transport'.connections[call.id].conn = "established"
        IN  /\ ~est => call.ret = None
            /\ est => /\ call.ret.some <=> wf # << >>
                      /\ call.ret.pixels = wf
                      /\ call.ret.some => call.ret.user_id = transport'.connections[call.id].user_id
            /\ ~call.ret.some => IngressState' = IngressState
            /\ (call.ret.some /\ ~is_on_cooldown(cooldown_master, call.ret.user_id)) =>
                   /\ is_on_cooldown(cooldown_master', call.ret.user_id)
                   /\ Len(pushed) - Len(popped) < SPSC_CAPACITY => pushed' = Append(pushed, wf[1])
                   /\ \A u \in UserIds : u # call.ret.user_id =>
                          (is_on_cooldown(cooldown_master', u) <=> is_on_cooldown(cooldown_master, u))]_vars
\* A packet of an established connection began with a datagram of a wrong
\* length, and the pixel of the datagram after it reached the ring.
C19_Witness ==
    /\ incoming.op = "handle_incoming"
    /\ Len(incoming.dgrams) > 1
    /\ incoming.dgrams[1].len # 5
    /\ incoming.ret.some
    /\ pushed # << >>
    /\ pushed[Len(pushed)] = WellFormed(incoming.dgrams)[1]
    /\ is_on_cooldown(cooldown_master, incoming.ret.user_id)
    /\ Cardinality(DOMAIN transport.connections) > 1

(***************************************************************************)
(* A full ring (worker.rs, spsc.rs).                                       *)
(***************************************************************************)
\* The ring is full.
RingFull == Len(pushed) - Len(popped) = SPSC_CAPACITY
\* The users whose cooldown bit the step sets: the worker accepted their write.
Accepted == {u \in UserIds : ~is_on_cooldown(cooldown_master, u) /\ is_on_cooldown(cooldown_master', u)}
\* A write accepted while the ring is full is discarded in the same step: the
\* push fails, neither the ring nor the canvas changes, and the handler ends.
C20_DropStep ==
    (RingFull /\ Accepted # {}) =>
        /\ res' = [op |-> "push", ok |-> FALSE, val |-> WellFormed(incoming'.dgrams)[1]]
        /\ tail' = tail /\ head' = head /\ buffer' = buffer
        /\ pushed' = pushed /\ popped' = popped
        /\ canvas' = canvas
\* Only writes that entered the ring reach the canvas, in the ring's order.
C20_OnlyQueuedApplied ==
    /\ pushed = popped \o RingContents
    /\ canvas = apply_writes(ZeroCanvas, popped)
\* C20: when the ring is full the worker discards the write without retrying
\* or blocking and goes on; the discarded write is never applied to the
\* canvas later and the writes already queued are unaffected.
C20_BackpressureByDrop == []C20_OnlyQueuedApplied /\ [][C20_DropStep]_vars
\* The last push failed on a full ring, and the master has since drained the
\* ring: the canvas shows the queued writes and not the discarded one.
C20_Witness ==
    /\ res.op = "push" /\ ~res.ok
    /\ Len(pushed) >= SPSC_CAPACITY
    /\ popped = pushed
    /\ \A j \in 1 .. Len(pushed) : pushed[j] # res.val
    /\ canvas # ZeroCanvas

(***************************************************************************)
(* The RLE codec.                                                          *)
(***************************************************************************)
\* C21: decoding the encoding of s into a destination of capacity >= |s|
\* reproduces s and returns |s|; into a smaller destination of capacity c it
\* writes the first c bytes of s, returns c and writes nowhere else.
C21_RleRoundTrip ==
    rle_call.pc = "decoded" =>
        LET len == SliceLen(rle_call.src)
            c == rle_call.capacity
        IN  /\ rle_call.ret = IF c >= len THEN len ELSE c
            /\ DOMAIN rle_call.out = 0 .. (c - 1)
            /\ \A i \in 0 .. (c - 1) :
                   rle_call.out[i] = IF i < len THEN rle_call.src[i] ELSE Filler
\* Runs longer than one pair were decoded into a destination too small, and
\* into one with room to spare.
C21_Witness ==
    /\ rle_call.pc = "decoded"
    /\ SliceLen(rle_call.src) > MAX_RUN
    /\ rle_call.capacity < SliceLen(rle_call.src)
    /\ rle_call.capacity > 0
    /\ Len(rle_call.payload) > 2

\* The pairs of the encoding: how many, and the count, the value and the
\* first input index of the k-th.
NumPairs == Len(rle_call.payload) \div 2
PairCount(k) == rle_call.payload[2 * k - 1]
PairValue(k) == rle_call.payload[2 * k]
RECURSIVE PairStart(_)
PairStart(k) == IF k = 1 THEN 0 ELSE PairStart(k - 1) + PairCount(k - 1)
\* C22: rle_compress emits (count, value) pairs with 1 <= count <= 255 whose
\* counts sum to |s| and that spell s; two consecutive pairs carry the same
\* value only when the first has count 255; the empty input gives the empty
\* output.
C22_RleCanonical ==
    rle_call.pc # "new" =>
        /\ Len(rle_call.payload) = 2 * NumPairs
        /\ \A k \in 1 .. NumPairs :
               /\ 1 <= PairCount(k) /\ PairCount(k) <= MAX_RUN
               /\ \A i \in PairStart(k) .. (PairStart(k) + PairCount(k) - 1) :
                      i \in DOMAIN rle_call.src /\ rle_call.src[i] = PairValue(k)
        /\ PairStart(NumPairs + 1) = SliceLen(rle_call.src)
        /\ \A k \in 1 .. (NumPairs - 1) :
               PairValue(k) = PairValue(k + 1) => PairCount(k) = MAX_RUN
        /\ SliceLen(rle_call.src) = 0 => rle_call.payload = << >>
\* A run longer than a pair carries was split after 255 bytes, before a run
\* of another value.
C22_Witness ==
    /\ rle_call.pc = "encoded"
    /\ NumPairs >= 3
    /\ PairCount(1) = MAX_RUN
    /\ PairValue(2) = PairValue(1)
    /\ PairValue(3) # PairValue(2)

\* C23: on every input the AVX2 and the SSE2 run detection of
\* master::rle_compress, followed by the byte loop, give the bytes the scalar
\* byte-at-a-time encoder gives.
C23_SimdEqualsScalar ==
    rle_call.pc # "new" => rle_call.payload = rle_compress_scalar(rle_call.src)
\* A block path encoded a run longer than 255 that begins after a short run
\* and so crosses block boundaries.
C23_Witness ==
    /\ rle_call.pc = "encoded"
    /\ rle_call.simd # "scalar"
    /\ NumPairs >= 3
    /\ PairCount(1) < SSE2_LANES
    /\ PairCount(2) = MAX_RUN
    /\ PairValue(3) = PairValue(2)


(***************************************************************************)
(* End-to-end progress: the master's loop of master.rs turn by turn, with  *)
(* a second worker whose ring is never empty, the publication and the      *)
(* worker's handle_broadcast step by step.                                 *)
(***************************************************************************)
\* The publications the master may begin in this specification: the pool is
\* written twice over.
ProgressPubs == 2 * BUFFER_SIZE
\* The writes of the worker whose ring is followed: both colours of a pixel.
ProgressVals == {PixelWrite(0, 0, c) : c \in Colors}
\* What the master pops from the other worker's ring in one turn: that ring is
\* never empty, so the batch loop takes all its 128 turns.
OtherVals == {PixelWrite(CANVAS_WIDTH - 1, CANVAS_HEIGHT - 1, c) : c \in Colors}
OtherBatches == [1 .. MASTER_BATCH_DRAIN -> OtherVals]

\* MasterCore::run, one turn of the loop up to snapshot_to_pool: for each worker
\* queue pop up to 128 writes and apply them; then, if the broadcast threshold
\* has passed, load ACTIVE_INDEX and enter snapshot_to_pool(next_active).
MasterTurn(passed, others) ==
    /\ master_thread.pc = "idle"
    /\ \E st \in {drain_batch([head |-> head, canvas |-> canvas, popped |-> popped],
                              MASTER_BATCH_DRAIN)} :
       \E cv \in {apply_writes(st.canvas, others)} :
        /\ head' = st.head
        /\ popped' = st.popped
        /\ canvas' = cv
        /\ IF passed /\ pubs < ProgressPubs
           THEN \E next_active \in {NextActive(ACTIVE_INDEX)} :
                  /\ master_thread' = [pc |-> "copy", next_active |-> next_active,
                                       i |-> 0, compressed_len |-> 0]
                  /\ snap' = [snap EXCEPT ![next_active] = cv]
           ELSE UNCHANGED <<master_thread, snap>>
    /\ UNCHANGED <<tail, buffer, pushed, res, bcastVars>>
    /\ UNCHANGED <<BUFFER_POOL, COMPRESSED_BUFFER_POOL, COMPRESSED_LENS, ACTIVE_INDEX, pubs>>
    /\ othersIdle

MasterPublishing == MCopyByte \/ MCompress \/ MStoreLen \/ MStoreActive
WorkerBroadcasting ==
    WLoadActive \/ WReadLen \/ WSendFull \/ WCopyByte \/ WDiffByte \/ WSendDiff

InitProgress == InitPool
NextProgress ==
    \/ \E v \in ProgressVals : WorkerEnqueue(v)
    \/ \E passed \in BOOLEAN : \E others \in OtherBatches : MasterTurn(passed, others)
    \/ MCopyByte
    \/ MCompress
    \/ MStoreLen
    \/ MStoreActive
    \/ WLoadActive
    \/ WReadLen
    \/ WSendFull
    \/ WCopyByte
    \/ WDiffByte
    \/ WSendDiff
\* Fair scheduling: the master's loop keeps turning and its clock keeps passing
\* the broadcast threshold, a publication once begun is finished, and the
\* worker's loop keeps calling handle_broadcast.
SpecProgress ==
    /\ InitProgress
    /\ [][NextProgress]_vars
    /\ WF_vars(\E others \in OtherBatches : MasterTurn(TRUE, others))
    /\ WF_vars(MasterPublishing)
    /\ WF_vars(WorkerBroadcasting)

(***************************************************************************)
(* C24                                                                     *)
(***************************************************************************)
\* The n-th write was pushed while the master may still begin a publication
\* after the turns that pop it.
PushedInTime(n) ==
    /\ Len(pushed) >= n
    /\ pubs + 1 + (IF n > Len(popped) THEN n - Len(popped) ELSE 0) <= ProgressPubs
\* A publication is complete whose snapshot was copied from a canvas to which
\* the n-th write had been applied.
PublishedWith(n) ==
    /\ Len(popped) >= n
    /\ master_thread.pc = "idle"
    /\ pubs > 0
    /\ BUFFER_POOL[ACTIVE_INDEX] = canvas
\* C24, the progress: under fair scheduling every pushed write is popped and
\* applied, while the other ring stays non-empty, and a snapshot copied after
\* that is published.
C24_Progress == \A n \in 1 .. MaxEnq : PushedInTime(n) ~> PublishedWith(n)
\* C24, the record: in the diff scan of the snapshot the worker observed, a
\* byte of that snapshot that differs from last_sent_canvas is appended to the
\* diff as the record (index, colour).
C24_DiffRecord ==
    [][(/\ worker_thread.pc = "diff_scan"
        /\ worker_thread' # worker_thread
        /\ wsnap[worker_thread.i] # last_sent_canvas[worker_thread.i])
       => diff_buffer' = diff_buffer \o to_le_bytes(worker_thread.i)
                                     \o <<wsnap[worker_thread.i]>>]_vars
\* C24: under fair scheduling of master and workers every pushed write is
\* eventually applied to the canvas and contained in a later published
\* snapshot, even while other workers keep their rings non-empty, and the
\* worker's next diff computed from that snapshot contains the record
\* (y * W + x, colour) whenever that byte differs from last_sent_canvas.
C24_EndToEndProgress == C24_Progress /\ C24_DiffRecord

(***************************************************************************)
(* C25: the ring with cursors that start anywhere in the machine word.     *)
(***************************************************************************)
\* The values both cursors may hold when the ring is empty: every value of the
\* word, the last ones before the wrap included.
StartCursors == 0 .. (WordMod - 1)
\* An empty ring after any number of pushes and pops: head = tail.
SpscAt(cursor) ==
    /\ tail = cursor
    /\ head = cursor
    /\ buffer = [i \in 0 .. (SPSC_CAPACITY - 1) |-> Uninit]
    /\ pushed = << >>
    /\ popped = << >>
    /\ res = NoRes
InitSpscWrap ==
    /\ \E cursor \in StartCursors : SpscAt(cursor)
    /\ ThreadsIdle /\ IngressNew /\ PoolNew /\ BroadcastNew /\ SeqlockNew
    /\ CallNew /\ TransportNew /\ ClockNew /\ TxNew /\ RingNew
NextSpscWrap == SeqPush \/ SeqPop
SpecSpscWrap == InitSpscWrap /\ [][NextSpscWrap]_vars

C25_Inv ==
    /\ popped = SubSeq(pushed, 1, Len(popped))
    /\ Unpopped \in 0 .. SPSC_CAPACITY
    /\ wrapping_sub(tail, head) = Unpopped
C25_Step ==
    /\ res'.op = "push" =>
          /\ ~res'.ok <=> Unpopped = SPSC_CAPACITY
          /\ res'.ok => pushed' = Append(pushed, res'.val)
    /\ res'.op = "pop" =>
          /\ ~res'.ok <=> Unpopped = 0
          /\ res'.ok => res'.val = pushed[Len(popped) + 1]
\* C25: from any cursor values with head = tail, those just below the maximum
\* of the word included, the pops return the pushed values in order, a push
\* fails iff SPSC_CAPACITY values are unpopped and a pop fails iff none is,
\* also while tail and then head wrap past zero.
C25_SpscAcrossOverflow == []C25_Inv /\ [][C25_Step]_vars
\* The tail has wrapped past zero and the head has not, on a full ring that
\* refused a push.
C25_WitnessTailWrapped ==
    /\ tail < head
    /\ res.op = "push"
    /\ ~res.ok
\* Both cursors have wrapped past zero, more values went through the ring than
\* it has slots, and the last pop found it empty.
C25_Witness ==
    /\ Len(popped) > head
    /\ Len(popped) > SPSC_CAPACITY
    /\ head = tail
    /\ res.op = "pop"
    /\ ~res.ok

(***************************************************************************)
(* C26: the cooldown bitset on its own (cooldown.rs).                      *)
(***************************************************************************)
\* Every id the bitset has a bit for.
BitsetIds == 0 .. (64 * COOLDOWN_ARRAY_LEN - 1)
\* The ids set_cooldown is called with: the first two and the last two bits
\* of every word.
CooldownIds == {j \in BitsetIds : BitAnd(j, 63) \in {0, 1, 62, 63}}

\* arr.set_cooldown(local_id) on the worker's master bitset
SetCooldown(local_id) ==
    /\ cooldown_master' = set_cooldown(cooldown_master, local_id)
    /\ UNCHANGED <<timing_wheel, age, gap>>
    /\ UNCHANGED <<spscVars, threadVars, poolVars, bcastVars, seqVars, callVars, transportVars, clockVars, txVars, ringVars>>

InitCooldown == InitIngress
NextCooldown == \E local_id \in CooldownIds : SetCooldown(local_id)
SpecCooldown == InitCooldown /\ [][NextCooldown]_vars

\* C26: on a fresh bitset every id is off cooldown; set_cooldown(id) makes
\* is_on_cooldown(id) true, leaves is_on_cooldown(j) as it was for every other
\* j, of the same word or of another one, and a second set_cooldown(id)
\* changes nothing.
C26_CooldownBitset ==
    /\ \A j \in BitsetIds : ~is_on_cooldown(CooldownNew, j)
    /\ \A id \in CooldownIds :
          \E after \in {set_cooldown(cooldown_master, id)} :
              /\ is_on_cooldown(after, id)
              /\ \A j \in BitsetIds \ {id} :
                     is_on_cooldown(after, j) <=> is_on_cooldown(cooldown_master, j)
              /\ set_cooldown(after, id) = after
\* Ids are on cooldown in two words while their neighbours in the same words
\* are off: bits 62 and 64 are set, bits 63 and 65 are not.
C26_Witness ==
    /\ is_on_cooldown(cooldown_master, 62)
    /\ is_on_cooldown(cooldown_master, 64)
    /\ ~is_on_cooldown(cooldown_master, 63)
    /\ ~is_on_cooldown(cooldown_master, 65)

(***************************************************************************)
(* C27: the worker's loop against the wall clock.  Between two turns of    *)
(* the loop of run_linux the clock advances by any number of seconds.      *)
(***************************************************************************)
\* The seconds counted for a user since its accepted write: none before the
\* first write; the count stops above the cooldown's length.
NextSince(s, elapsed) ==
    IF s = -1 THEN -1
    ELSE IF s + elapsed <= TIMING_WHEEL_TICKS THEN s + elapsed
    ELSE TIMING_WHEEL_TICKS + 1
\* The writes of one turn: nobody writes, or one user sends one pixel.
NoWriter == -1
Writers == {NoWriter} \cup UserIds
\* handle_tick on the worker's state: one tick when a second or more has passed.
handle_tick(st, elapsed) ==
    IF elapsed > 0
    THEN [st EXCEPT !.cm = tick_master(st.tw, st.cm),
                    !.tw = tick_wheel(st.tw),
                    !.age = [u \in UserIds |-> NextAge(st.age[u])]]
    ELSE st

\* One turn of the loop of run_linux, elapsed seconds after the previous one:
\* handle_tick, then handle_incoming_cqe for the packet of the writer, if any.
LoopIteration(elapsed, writer) ==
    \E ticked \in {handle_tick(WorkerState, elapsed)} :
    \E st \in {IF writer = NoWriter THEN ticked
               ELSE pixel_loop(ticked, writer, <<Dgram(5, 0, 0, 0)>>)} :
        /\ Len(st.pushed) <= MaxEnq
        /\ cooldown_master' = st.cm
        /\ timing_wheel' = st.tw
        /\ tail' = st.tail
        /\ buffer' = st.buffer
        /\ pushed' = st.pushed
        /\ res' = st.res
        /\ age' = st.age
        /\ gap' = st.gap
        /\ since' = [u \in UserIds |->
                        IF u = writer /\ ~is_on_cooldown(ticked.cm, u) THEN 0
                        ELSE NextSince(since[u], elapsed)]
        /\ UNCHANGED <<head, popped, threadVars, poolVars, bcastVars, seqVars, callVars,
                       transportVars, txVars, ringVars>>

InitClock == InitIngress
NextClock ==
    \/ \E elapsed \in 0 .. MaxElapsed, writer \in Writers : LoopIteration(elapsed, writer)
    \/ MasterPop
\* The loop keeps turning while the clock advances, and the master keeps draining.
SpecClock ==
    /\ InitClock
    /\ [][NextClock]_vars
    /\ WF_vars(\E elapsed \in 1 .. MaxElapsed : LoopIteration(elapsed, NoWriter))
    /\ WF_vars(MasterPop)

\* C27: for every schedule of loop iterations, also when more than one second
\* passes between two of them, a user is on cooldown after an iteration iff its
\* last accepted write is less than TIMING_WHEEL_TICKS clock seconds old: it is
\* off cooldown at the first iteration that runs TIMING_WHEEL_TICKS seconds or
\* more after the write.
C27_CooldownLastsT ==
    \A u \in UserIds :
        is_on_cooldown(cooldown_master, u) <=> since[u] \in 0 .. (TIMING_WHEEL_TICKS - 1)

(***************************************************************************)
(* C28                                                                     *)
(***************************************************************************)
\* C28: user-ids are conserved, also by the worker's periodic maintenance: at
\* all times the free list and the connection table together hold
\* MAX_CONNECTIONS user-ids, and the reverse map has entries for connections
\* of the table only, so that a worker whose connections all closed can
\* accept MAX_CONNECTIONS new ones.
C28_UserIdsConserved ==
    /\ Len(transport.free_user_ids) + Cardinality(DOMAIN transport.connections)
           = MAX_CONNECTIONS
    /\ \A d \in DOMAIN transport.cid_map :
           transport.cid_map[d] \in DOMAIN transport.connections

(***************************************************************************)
(* C29: the ingress of one client whose datagrams carry coordinates inside *)
(* and outside the canvas, with the clock and the master's drain.          *)
(***************************************************************************)
\* One pixel inside the canvas, one just right of it and one just below it.
BoundsDgrams ==
    {Dgram(5, CANVAS_WIDTH - 1, CANVAS_HEIGHT - 1, NumColors - 1),
     Dgram(5, CANVAS_WIDTH, 0, NumColors - 1),
     Dgram(5, 0, CANVAS_HEIGHT, NumColors - 1)}
BoundsPackets == {<<d>> : d \in BoundsDgrams}
InitBounds == InitIngress
NextBounds ==
    \/ \E dcid \in {0} \cup Scids, accept_ok \in BOOLEAN, dgrams \in BoundsPackets :
           HandleIncomingCqe(dcid, IF dcid \in Scids THEN "Short" ELSE "Initial", accept_ok,
                             "established", dgrams)
    \/ \E elapsed \in 0 .. MaxElapsed : HandleTick(elapsed)
    \/ MasterPop
SpecBounds == InitBounds /\ [][NextBounds]_vars

\* C29: every PixelWrite the worker pushed into the ring has x < CANVAS_WIDTH
\* and y < CANVAS_HEIGHT: a datagram with a coordinate out of range is not
\* enqueued.
C29_PushedInBounds ==
    \A k \in 1 .. Len(pushed) :
        /\ pushed[k].x < CANVAS_WIDTH
        /\ pushed[k].y < CANVAS_HEIGHT

(***************************************************************************)
(* C30                                                                     *)
(***************************************************************************)
\* The kind of payload the schedule gives to the k-th observed change.
ScheduledKind(k) == IF k = 1 \/ k % FULL_BROADCAST_INTERVAL = 0 THEN "full" ELSE "diff"
\* The worker observes a change: it is the next one in the count, the index
\* is recorded and the branch taken is the scheduled one.
C30_Observe ==
    broadcast_ticks' # broadcast_ticks =>
        /\ worker_thread.pc = "idle"
        /\ ACTIVE_INDEX # last_broadcast_index
        /\ broadcast_ticks' = broadcast_ticks + 1
        /\ last_broadcast_index' = ACTIVE_INDEX
        /\ worker_thread'.pc = IF ScheduledKind(broadcast_ticks') = "full"
                               THEN "full_len" ELSE "diff_scan"
\* Whatever is queued to a connection is one payload of the scheduled kind, and
\* last_sent_canvas is written in the service of an observed change only:
\* copied from the snapshot on a full tick, patched by the scan on a diff tick.
C30_Send ==
    /\ rx' # rx =>
          \A c \in ConnIds :
              \/ rx'[c] = rx[c]
              \/ rx'[c] = Append(rx[c], ScheduledKind(broadcast_ticks))
    /\ last_sent_canvas' # last_sent_canvas =>
          worker_thread.pc = IF ScheduledKind(broadcast_ticks) = "full"
                             THEN "full_copy" ELSE "diff_scan"
\* With ACTIVE_INDEX equal to the last observed value the worker's call sends
\* nothing and leaves its counter, its index and last_sent_canvas alone.
C30_NoChange ==
    (worker_thread.pc = "idle" /\ ACTIVE_INDEX = last_broadcast_index) =>
        /\ worker_thread'.pc = "idle"
        /\ UNCHANGED <<broadcast_ticks, last_broadcast_index, last_sent_canvas, rx>>
\* C30: on the k-th change of ACTIVE_INDEX that the worker observes since it
\* started it sends the full snapshot if k = 1 or k mod F = 0 and a diff
\* against last_sent_canvas otherwise; when ACTIVE_INDEX equals the last
\* observed value it sends nothing and changes neither its counter nor
\* last_sent_canvas.
C30_BroadcastSchedule == [][C30_Observe /\ C30_Send /\ C30_NoChange]_vars
\* A connection was sent the full snapshot of the first and of the F-th
\* observed change and diffs in between.
C30_Witness ==
    /\ broadcast_ticks = FULL_BROADCAST_INTERVAL
    /\ worker_thread.pc = "idle"
    /\ \E c \in ConnIds :
          /\ Len(rx[c]) = FULL_BROADCAST_INTERVAL
          /\ \A k \in 1 .. Len(rx[c]) : rx[c][k] = ScheduledKind(k)

\* ---------------------------------------------------------------------------
\* TX slots: flush_outgoing and the completions of its sends.
\* ---------------------------------------------------------------------------

\* What conn.send answers for one call: a packet for an IPv4 peer, a packet
\* for another address family, or Err (Done included).
SendOutcomes == {"v4", "other", "err"}
\* The answers one connection gives to the calls of one flush_outgoing.
SendScripts == UNION {[1 .. n -> SendOutcomes] : n \in 0 .. MaxSends}

\* The number of times idx occurs in a sequence of slot indices.
Occurrences(q, idx) == Cardinality({i \in 1 .. Len(q) : q[i] = idx})

\* The state flush_outgoing works on.
TxState == [free |-> tx_free_indices, inflight |-> tx_inflight, torn |-> tx_torn]

\* A flush_outgoing turn that keeps the slot of a packet it does not submit.
flush_turn_leaking(st, outcome) ==
    LET idx == st.free[Len(st.free)]
        popped_ == [st EXCEPT !.free = SubSeq(st.free, 1, Len(st.free) - 1),
                              !.torn = IF st.inflight[idx] > 0 THEN @ \cup {idx} ELSE @]
    IN  IF outcome = "v4"
        THEN [popped_ EXCEPT !.inflight[idx] = @ + 1]
        ELSE popped_
\* One turn of flush_outgoing's while loop, tx_free_indices.pop() having
\* answered Some(idx): conn.send writes the slot's buffer; Ok to an IPv4 peer
\* submits a SendMsg carrying idx, any other answer pushes idx back.
flush_turn(st, outcome) ==
    LET idx == st.free[Len(st.free)]
        popped_ == [st EXCEPT !.free = SubSeq(st.free, 1, Len(st.free) - 1),
                              !.torn = IF st.inflight[idx] > 0 THEN @ \cup {idx} ELSE @]
    IN  IF outcome = "v4"
        THEN [popped_ EXCEPT !.inflight[idx] = @ + 1]
        ELSE [popped_ EXCEPT !.free = Append(@, idx)]

\* flush_outgoing's while loop for one connection: it ends when the free list
\* is empty or conn.send answers Err (a script that ran out answers Done).
RECURSIVE flush_conn(_, _)
flush_conn(st, script) ==
    IF st.free = << >> \/ script = << >> THEN st
    ELSE IF Head(script) = "err" THEN flush_turn(st, "err")
    ELSE flush_conn(flush_turn(st, Head(script)), Tail(script))

\* flush_outgoing: the loop over the connections, in order.
RECURSIVE flush_outgoing(_, _)
flush_outgoing(st, scripts) ==
    IF scripts = << >> THEN st
    ELSE flush_outgoing(flush_conn(st, Head(scripts)), Tail(scripts))

\* The worker calls flush_outgoing.
FlushOutgoing(scripts) ==
    \E st \in {flush_outgoing(TxState, scripts)} :
        /\ tx_free_indices' = st.free
        /\ tx_inflight' = st.inflight
        /\ tx_torn' = st.torn
        /\ UNCHANGED tx_cq
        /\ UNCHANGED <<spscVars, threadVars, ingressVars, poolVars, bcastVars, seqVars,
                       callVars, transportVars, clockVars, ringVars>>

\* The kernel finishes a submitted send and posts its completion, whose
\* user_data carries TAG_OUTGOING_UDP | (idx << 8).
TxCompletion(idx) ==
    /\ tx_inflight[idx] > 0
    /\ tx_inflight' = [tx_inflight EXCEPT ![idx] = @ - 1]
    /\ tx_cq' = Append(tx_cq, idx)
    /\ UNCHANGED <<tx_free_indices, tx_torn>>
    /\ UNCHANGED <<spscVars, threadVars, ingressVars, poolVars, bcastVars, seqVars,
                   callVars, transportVars, clockVars, ringVars>>

\* The worker loop's pass over the collected completions: every one tagged
\* TAG_OUTGOING_UDP pushes its idx onto tx_free_indices.
TxDispatch ==
    /\ tx_cq # << >>
    /\ tx_free_indices' = tx_free_indices \o tx_cq
    /\ tx_cq' = << >>
    /\ UNCHANGED <<tx_inflight, tx_torn>>
    /\ UNCHANGED <<spscVars, threadVars, ingressVars, poolVars, bcastVars, seqVars,
                   callVars, transportVars, clockVars, ringVars>>

InitTx == InitIngress
NextTx ==
    \/ \E scripts \in [1 .. NumConns -> SendScripts] : FlushOutgoing(scripts)
    \/ \E idx \in TxSlots : TxCompletion(idx)
    \/ TxDispatch
SpecTx == InitTx /\ [][NextTx]_vars

\* The sends using slot idx whose completion the worker has not processed:
\* the ones the kernel still works on and the ones whose completion waits.
TxPending(idx) == tx_inflight[idx] + Occurrences(tx_cq, idx)

\* C31 (state part): every slot is exactly once in the free list or used by
\* exactly one send that is not completed, never both and never neither, and
\* conn.send never wrote the buffer of a slot whose send was not completed.
C31_Inv ==
    /\ \A idx \in TxSlots : Occurrences(tx_free_indices, idx) + TxPending(idx) = 1
    /\ \A i \in 1 .. Len(tx_free_indices) : tx_free_indices[i] \in TxSlots
    /\ tx_torn = {}
\* C31 (step part): a slot that was used by a send and is free after a step
\* came back through the completion that carries its index.
C31_Step ==
    \A idx \in TxSlots :
        (TxPending(idx) > 0 /\ Occurrences(tx_free_indices', idx) > 0)
            => (Occurrences(tx_cq, idx) > 0 /\ Occurrences(tx_cq', idx) = 0)
\* C31: the TX slot discipline: every slot index is at all times either once in
\* the free list or referenced by exactly one submitted and not completed send;
\* it returns to the free list only through its completion or when the QUIC
\* stack produced no packet for it, so no buffer is rewritten while in flight.
C31_TxSlotDiscipline == [][C31_Inv /\ C31_Inv' /\ C31_Step]_vars
\* A completion was processed while another send is still in flight: the free
\* list is no longer a prefix of the list WorkerCore::new built.
C31_Witness ==
    /\ tx_free_indices # << >>
    /\ \E i \in 1 .. Len(tx_free_indices) : tx_free_indices[i] # i - 1
    /\ \E idx \in TxSlots : tx_inflight[idx] = 1

\* ---------------------------------------------------------------------------
\* The distance between a worker's load of a pool slot and its next rewrite.
\* ---------------------------------------------------------------------------

\* C32 (state part): ACTIVE_INDEX is a slot of the pool; the slot the master
\* writes is the one after ACTIVE_INDEX and not ACTIVE_INDEX; and when the
\* master writes the slot a worker loaded and still reads, at least
\* BUFFER_SIZE - 1 publications were completed since that load.
C32_Inv ==
    /\ ACTIVE_INDEX \in 0 .. BUFFER_SIZE - 1
    /\ master_thread.pc # "idle" =>
        /\ master_thread.next_active = (ACTIVE_INDEX + 1) % BUFFER_SIZE
        /\ master_thread.next_active # ACTIVE_INDEX
    /\ (MasterWriting /\ WorkerReading
            /\ worker_thread.current_active = master_thread.next_active)
        => pubs - worker_thread.loaded >= BUFFER_SIZE - 1
\* C32 (step part): a step that changes ACTIVE_INDEX completes one publication
\* and advances it by one modulo the pool size, and a step writes no slot of
\* the pool but the one after ACTIVE_INDEX.
C32_Step ==
    /\ (ACTIVE_INDEX' # ACTIVE_INDEX \/ pubs' # pubs) =>
        /\ ACTIVE_INDEX' = (ACTIVE_INDEX + 1) % BUFFER_SIZE
        /\ pubs' = pubs + 1
    /\ \A k \in 0 .. BUFFER_SIZE - 1 :
        (\/ BUFFER_POOL'[k] # BUFFER_POOL[k]
         \/ COMPRESSED_BUFFER_POOL'[k] # COMPRESSED_BUFFER_POOL[k]
         \/ COMPRESSED_LENS'[k] # COMPRESSED_LENS[k])
            => (k = (ACTIVE_INDEX + 1) % BUFFER_SIZE /\ k # ACTIVE_INDEX)
\* C32: pool slot reuse distance: ACTIVE_INDEX stays in [0, P), a publication
\* advances it by one modulo P, the master writes slot (ACTIVE_INDEX + 1) mod P
\* and never slot ACTIVE_INDEX, so a slot a worker loaded is not written again
\* before P - 1 further publications were completed.
C32_ReuseDistance == []C32_Inv /\ [][C32_Step]_vars
\* The master rewrites the slot a worker loaded and still reads, P - 1
\* publications after the load.
C32_Witness ==
    /\ master_thread.pc = "copy" /\ master_thread.i > 0
    /\ WorkerReading
    /\ worker_thread.current_active = master_thread.next_active
    /\ pubs - worker_thread.loaded = BUFFER_SIZE - 1

\* ---------------------------------------------------------------------------
\* A user-id that is freed while on cooldown and given to a new connection.
\* ---------------------------------------------------------------------------

\* One client connects, writes, closes and connects again while the clock
\* advances; the master is not scheduled.  A packet carries no or one pixel.
RecyclePackets == {<< >>, <<Dgram(5, 0, 0, 0)>>}
InitRecycle == InitIngress
NextRecycle ==
    \/ \E dcid \in {0} \cup Scids, after \in {"established", "closed"},
          dgrams \in RecyclePackets :
           HandleIncomingCqe(dcid, IF dcid \in Scids THEN "Short" ELSE "Initial", TRUE,
                             after, dgrams)
    \/ CleanupConnections
    \/ \E elapsed \in 0 .. MaxElapsed : HandleTick(elapsed)
\* The clock advances and the loop calls handle_tick again and again.
SpecRecycle ==
    /\ InitRecycle
    /\ [][NextRecycle]_vars
    /\ WF_vars(\E elapsed \in 1 .. MaxElapsed : HandleTick(elapsed))

\* The user-ids the step assigns to a connection it accepts.
Assigned ==
    {transport'.connections[k].user_id :
        k \in DOMAIN transport'.connections \ DOMAIN transport.connections}
\* The step is a tick of the timing wheel.
Ticked == timing_wheel'.current_tick # timing_wheel.current_tick

\* C33 (assignment): a user-id assigned while its bit is set is assigned with
\* the bit as the previous owner left it, set at most TIMING_WHEEL_TICKS - 1
\* ticks ago.
C33_Inherit ==
    \A u \in Assigned :
        is_on_cooldown(cooldown_master, u) =>
            /\ is_on_cooldown(cooldown_master', u)
            /\ age'[u] = age[u]
            /\ age[u] \in 0 .. (TIMING_WHEEL_TICKS - 1)
\* C33 (countdown): while a bit is set every tick ages it by one and the bit is
\* cleared by the tick that makes it TIMING_WHEEL_TICKS old; no other step, a
\* rejected write of the new owner included, changes the bit or its age.
C33_Countdown ==
    \A u \in UserIds :
        is_on_cooldown(cooldown_master, u) =>
            IF Ticked
            THEN /\ age'[u] = age[u] + 1
                 /\ is_on_cooldown(cooldown_master', u) <=> age'[u] < TIMING_WHEEL_TICKS
            ELSE /\ age'[u] = age[u]
                 /\ is_on_cooldown(cooldown_master', u)
\* C33 (no permanence): a set bit is cleared in the end, by the ticks alone.
C33_Cleared ==
    \A u \in UserIds :
        is_on_cooldown(cooldown_master, u) ~> ~is_on_cooldown(cooldown_master, u)
WheelSlots(u) ==
    {t \in 0 .. (TIMING_WHEEL_TICKS - 1) : is_on_cooldown(timing_wheel.wheel[t], u)}

\* C34: after any sequence of accepted writes, rejected writes and ticks a
\* user's bit is set in the cooldown bitset iff it is set in exactly one bucket
\* of the timing wheel, and no bit is ever set in two buckets; the bucket is
\* the one that was current when the write was accepted.
C34_BitsetMatchesWheel ==
    \A u \in UserIds :
        /\ Cardinality(WheelSlots(u)) <= 1
        /\ is_on_cooldown(cooldown_master, u) <=> Cardinality(WheelSlots(u)) = 1
        /\ is_on_cooldown(cooldown_master, u) =>
               WheelSlots(u) =
                   {(timing_wheel.current_tick + TIMING_WHEEL_TICKS - age[u]) % TIMING_WHEEL_TICKS}
\* Two users are on cooldown in two different buckets, one of them after its
\* second accepted write, and the wheel has turned round at least once.
C34_Witness ==
    /\ \E u, v \in UserIds :
        /\ WheelSlots(u) # {} /\ WheelSlots(v) # {}
        /\ WheelSlots(u) # WheelSlots(v)
    /\ Len(pushed) > NumUsers
    /\ timing_wheel.current_tick = 0

\* ---------------------------------------------------------------------------
\* Publications a worker did not service.
\* ---------------------------------------------------------------------------

\* The publications completed since the worker last loaded ACTIVE_INDEX.
Intervening == pubs - worker_thread.loaded

\* C35: if the master completed one or more publications since the worker last
\* serviced broadcasts, whatever their number, the worker's next
\* handle_broadcast detects a change: the index it loads differs from
\* last_broadcast_index.
C35_DetectsChange ==
    (worker_thread.pc = "idle" /\ Intervening >= 1) => ACTIVE_INDEX # last_broadcast_index
\* A whole turn of the pool was published since the worker's last service and
\* the newest snapshot differs from the one the worker sent.
C35_Missed ==
    /\ worker_thread.pc = "idle"
    /\ Intervening = BUFFER_SIZE
    /\ ACTIVE_INDEX = last_broadcast_index
    /\ BUFFER_POOL[ACTIVE_INDEX] # last_sent_canvas

\* ---------------------------------------------------------------------------
\* The loop of run_linux on its ring: submissions, completions, the multishot
\* receive and the provided buffers.
\* ---------------------------------------------------------------------------

\* A receive completion: result >= 0 or not, the buffer the kernel selected
\* (IORING_CQE_F_BUFFER) and whether the multishot goes on (IORING_CQE_F_MORE).
RecvCqe(ok, buf, more) == [ok |-> ok, buf |-> buf, more |-> more]
\* The completions that report the end of their multishot receive.
Terminal(cq) == {i \in 1 .. Len(cq) : ~cq[i].more}
\* The completions that carry buffer b.
Carrying(cq, b) == {i \in 1 .. Len(cq) : cq[i].buf = b}

\* What the handling of a completion pushes to the submission queue.
RingState == [recv_sq |-> recv_sq, provide_sq |-> provide_sq]

\* WorkerCore::handle_incoming_cqe, its use of the ring: without a selected
\* buffer it returns; else the buffer goes back with ProvideBuffers and, the
\* multishot having ended, a new RecvMsgMulti is pushed.
handle_incoming_cqe(rs, cqe) ==
    IF cqe.buf = NoBuf THEN rs
    ELSE [rs EXCEPT !.provide_sq = Append(@, cqe.buf),
                    !.recv_sq = IF ~cqe.more THEN @ + 1 ELSE @]

\* A dispatch that takes a failed receive for logged and done.
dispatch_cqe_logging(rs, cqe) ==
    IF cqe.ok THEN handle_incoming_cqe(rs, cqe) ELSE rs
\* run_linux, a completion tagged TAG_INCOMING_UDP: result >= 0 goes to
\* handle_incoming_cqe; a failed one pushes a new RecvMsgMulti when the
\* multishot has ended.
dispatch_cqe(rs, cqe) ==
    IF cqe.ok THEN handle_incoming_cqe(rs, cqe)
    ELSE IF ~cqe.more THEN [rs EXCEPT !.recv_sq = @ + 1]
    ELSE rs

\* run_linux: for i in 0..parsed_count, the receive completions in order.
RECURSIVE dispatch_all(_, _)
dispatch_all(rs, cq) ==
    IF cq = << >> THEN rs ELSE dispatch_all(dispatch_cqe(rs, Head(cq)), Tail(cq))

\* The kernel, a multishot receive being armed, posts a completion: a datagram
\* in a buffer of the group, with or without F_MORE, or a failure (ENOBUFS when
\* the group is empty, or another error), which carries no buffer and ends
\* the multishot.
KernelRecv ==
    /\ recv_armed > 0
    /\ Len(rx_cq) < MaxCq
    /\ \E cqe \in {RecvCqe(TRUE, b, more) : b \in {i \in BufferIds : provided[i] > 0},
                                             more \in BOOLEAN}
                  \cup {RecvCqe(FALSE, NoBuf, FALSE)} :
        /\ rx_cq' = Append(rx_cq, cqe)
        /\ recv_armed' = IF cqe.more THEN recv_armed ELSE recv_armed - 1
        /\ provided' = IF cqe.buf = NoBuf THEN provided
                       ELSE [provided EXCEPT ![cqe.buf] = @ - 1]
    /\ UNCHANGED <<worker_loop, recv_sq, provide_sq, other_cq>>
    /\ UNCHANGED <<spscVars, threadVars, ingressVars, poolVars, bcastVars, seqVars,
                   callVars, transportVars, clockVars, txVars>>

\* ring.submit_and_wait(1), the submission: the kernel takes the pushed
\* entries; a RecvMsgMulti is armed, a ProvideBuffers puts its buffer into the
\* group and posts a completion with user_data 0.
Submit ==
    /\ worker_loop.pc = "submit"
    /\ worker_loop' = [worker_loop EXCEPT !.pc = "wait"]
    /\ recv_armed' = recv_armed + recv_sq
    /\ recv_sq' = 0
    /\ provided' = [b \in BufferIds |-> provided[b] + Occurrences(provide_sq, b)]
    /\ other_cq' = other_cq + Len(provide_sq)
    /\ provide_sq' = << >>
    /\ UNCHANGED rx_cq
    /\ UNCHANGED <<spscVars, threadVars, ingressVars, poolVars, bcastVars, seqVars,
                   callVars, transportVars, clockVars, txVars>>

\* ring.submit_and_wait(1), the wait: it returns when the completion queue
\* holds at least one completion.
Wait ==
    /\ worker_loop.pc = "wait"
    /\ rx_cq # << >> \/ tx_cq # << >> \/ other_cq > 0
    /\ worker_loop' = [worker_loop EXCEPT !.pc = "tick"]
    /\ UNCHANGED <<recv_sq, recv_armed, rx_cq, provide_sq, provided, other_cq>>
    /\ UNCHANGED <<spscVars, threadVars, ingressVars, poolVars, bcastVars, seqVars,
                   callVars, transportVars, clockVars, txVars>>

\* run_linux: self.handle_tick(&mut last_tick_sec); handle_broadcast is next.
LoopTick(elapsed) ==
    /\ worker_loop.pc = "tick"
    /\ \E st \in {handle_tick(WorkerState, elapsed)} :
        /\ cooldown_master' = st.cm
        /\ timing_wheel' = st.tw
        /\ age' = st.age
    /\ worker_loop' = [pc |-> "broadcast", ticks |-> broadcast_ticks]
    /\ UNCHANGED gap
    /\ UNCHANGED <<recv_sq, recv_armed, rx_cq, provide_sq, provided, other_cq>>
    /\ UNCHANGED <<spscVars, threadVars, poolVars, bcastVars, seqVars,
                   callVars, transportVars, clockVars, txVars>>

\* handle_broadcast has returned in this turn of the loop: it found
\* ACTIVE_INDEX unchanged, or it has serviced the change it found.
BroadcastReturned ==
    /\ worker_loop.pc = "broadcast"
    /\ worker_thread.pc = "idle"
    /\ broadcast_ticks # worker_loop.ticks \/ ACTIVE_INDEX = last_broadcast_index

\* run_linux after handle_broadcast: the completions are drained and
\* dispatched (a send's slot goes back to the free list, a receive is handled;
\* its packet belongs to no connection of the table), then flush_outgoing;
\* maintain_connections finds nothing to retire.
LoopCompletions(scripts) ==
    /\ BroadcastReturned
    /\ \E st \in {flush_outgoing([free |-> tx_free_indices \o tx_cq,
                                  inflight |-> tx_inflight, torn |-> tx_torn], scripts)} :
        /\ tx_free_indices' = st.free
        /\ tx_inflight' = st.inflight
        /\ tx_torn' = st.torn
    /\ tx_cq' = << >>
    /\ \E rs \in {dispatch_all(RingState, rx_cq)} :
        /\ recv_sq' = rs.recv_sq
        /\ provide_sq' = rs.provide_sq
    /\ rx_cq' = << >>
    /\ other_cq' = 0
    /\ worker_loop' = [worker_loop EXCEPT !.pc = "submit"]
    /\ UNCHANGED <<recv_armed, provided>>
    /\ UNCHANGED <<spscVars, threadVars, ingressVars, poolVars, bcastVars, seqVars,
                   callVars, transportVars, clockVars>>

\* The receive side alone: no connection, nothing to send, no publication.
NoScripts == [c \in 1 .. NumConns |-> << >>]
InitRecv == InitIngress
NextRecv ==
    \/ KernelRecv
    \/ Submit
    \/ Wait
    \/ \E elapsed \in 0 .. MaxElapsed : LoopTick(elapsed)
    \/ LoopCompletions(NoScripts)
SpecRecv == InitRecv /\ [][NextRecv]_vars

\* C38 (state part): one multishot receive is pushed, armed or ended with its
\* last completion not yet processed, never none and never two; and every
\* buffer is in the kernel's group, in a completion not yet processed, or on
\* its way back in one ProvideBuffers entry.
C38_Inv ==
    /\ recv_sq + recv_armed + Cardinality(Terminal(rx_cq)) = 1
    /\ \A b \in BufferIds :
           provided[b] + Occurrences(provide_sq, b) + Cardinality(Carrying(rx_cq, b)) = 1
\* C38 (step part): the turn of the loop that processes the completions pushes
\* one RecvMsgMulti for every completion that reports the end of the multishot,
\* successful or failed, and one ProvideBuffers for every buffer delivered, in
\* order; after it exactly one receive is pushed or armed.
C38_Step ==
    (worker_loop.pc = "broadcast" /\ worker_loop'.pc = "submit") =>
        /\ recv_sq' = recv_sq + Cardinality(Terminal(rx_cq))
        /\ provide_sq' = provide_sq \o
               [j \in 1 .. Cardinality({i \in 1 .. Len(rx_cq) : rx_cq[i].buf # NoBuf}) |->
                   LET withBuf == {i \in 1 .. Len(rx_cq) : rx_cq[i].buf # NoBuf}
                       nth == CHOOSE i \in withBuf :
                                  Cardinality({k \in withBuf : k < i}) = j - 1
                   IN  rx_cq[nth].buf]
        /\ recv_sq' + recv_armed' = 1
        /\ rx_cq' = << >>
\* C38: whenever a receive completion, successful or failed, reports that the
\* multishot ended, the worker submits a new multishot receive while it
\* processes that completion, so exactly one multishot receive is armed after
\* every iteration, and every delivered buffer is returned exactly once.
C38_ReceiveRearm == []C38_Inv /\ [][C38_Step]_vars
\* A datagram waits in its buffer, after it a failed completion that ended the
\* multishot: no receive is armed or pushed, and the completion of an earlier
\* ProvideBuffers waits too.
C38_Witness ==
    /\ Len(rx_cq) = 2
    /\ rx_cq[1].ok /\ rx_cq[1].more
    /\ ~rx_cq[2].ok
    /\ recv_armed = 0 /\ recv_sq = 0
    /\ other_cq > 0

\* ---------------------------------------------------------------------------
\* The loop of run_linux with the master publishing.
\* ---------------------------------------------------------------------------

\* handle_broadcast inside the loop: it runs once in a turn, after handle_tick.
LoopBroadcast ==
    /\ worker_loop.pc = "broadcast"
    /\ \/ WLoadActive /\ broadcast_ticks = worker_loop.ticks
       \/ WReadLen \/ WSendFull \/ WCopyByte \/ WDiffByte \/ WSendDiff
\* A client's handshake completes with a datagram the turn is about to process.
LoopEstablish(c) ==
    /\ BroadcastReturned
    /\ \E i \in 1 .. Len(rx_cq) : rx_cq[i].ok
    /\ Establish(c)
InitLoop == InitPool
NextLoop ==
    \/ KernelRecv
    \/ Submit
    \/ Wait
    \/ \E elapsed \in 0 .. 1 : LoopTick(elapsed)
    \/ LoopBroadcast
    \/ \E c \in ConnIds : LoopEstablish(c)
    \/ LoopCompletions(NoScripts)
    \/ pubs < BUFFER_SIZE - 1 /\ MPublishBegin
    \/ MasterPublishing
\* Fair scheduling: both threads keep running; when a datagram arrives is up
\* to the clients, and the connections have no packet for flush_outgoing.
\* The master publishes fewer snapshots than the pool has slots, so that
\* ACTIVE_INDEX never comes back to a value the worker has recorded.
SpecLoop ==
    /\ InitLoop
    /\ [][NextLoop]_vars
    /\ WF_vars((pubs < BUFFER_SIZE - 1 /\ MPublishBegin) \/ MasterPublishing)
    /\ WF_vars(Submit)
    /\ WF_vars(Wait)
    /\ WF_vars(\E elapsed \in 0 .. 1 : LoopTick(elapsed))
    /\ WF_vars(LoopBroadcast)
    /\ WF_vars(LoopCompletions(NoScripts))
\* The same with clients that keep sending: a datagram arrives again and again.
SpecLoopFed == SpecLoop /\ WF_vars(KernelRecv)

\* The worker has serviced publication n or a later one.
Serviced(n) == worker_thread.pc = "idle" /\ worker_thread.loaded >= n
\* C36: whenever the master has published a snapshot while the worker has an
\* established connection, the worker services the broadcast in the end under
\* fair scheduling, with no further inbound packet or send completion.
C36_BroadcastProgress ==
    \A n \in 1 .. MaxPub : (pubs = n /\ connections # {}) ~> Serviced(n)
\* The worker sleeps in submit_and_wait with an unserviced publication, an
\* established connection and an empty completion queue, no send in flight.
C36_Asleep ==
    /\ worker_loop.pc = "wait"
    /\ rx_cq = << >> /\ tx_cq = << >> /\ other_cq = 0
    /\ \A idx \in TxSlots : tx_inflight[idx] = 0
    /\ connections # {}
    /\ pubs = BUFFER_SIZE - 1 /\ master_thread.pc = "idle"
    /\ worker_thread.loaded < pubs
    /\ ACTIVE_INDEX # last_broadcast_index

\* ---------------------------------------------------------------------------
\* A write dropped on a full ring and the cooldown of its user.
\* ---------------------------------------------------------------------------

\* The well-formed datagrams.
PixelDgrams == {d \in Dgrams : d.len = 5}
\* The bit of u is set in the bitset and in the wheel's current bucket.
CooldownStarted(st, u) ==
    /\ is_on_cooldown(st.cm, u)
    /\ is_on_cooldown(st.tw.wheel[st.tw.current_tick], u)

\* C37 (the turn): with the ring full, the loop's turn for a pixel of a user
\* off cooldown sets the user's bit and wheel slot although the push fails and
\* nothing enters the ring, and the same pixel sent again is rejected.
C37_DroppedTurn ==
    \A u \in UserIds, d \in PixelDgrams :
        (RingFull /\ ~is_on_cooldown(cooldown_master, u)) =>
            LET st == pixel_turn(WorkerState, u, d)
            IN  /\ CooldownStarted(st, u)
                /\ ~st.res.ok
                /\ st.pushed = pushed /\ st.tail = tail /\ st.buffer = buffer
                /\ pixel_turn(st, u, d) = st
\* C37 (the step): a step of the worker that accepts a write while the ring is
\* full leaves the user on cooldown, in the wheel's current bucket, with
\* nothing pushed.
C37_DroppedStep ==
    \A u \in Accepted :
        RingFull =>
            /\ is_on_cooldown(timing_wheel'.wheel[timing_wheel'.current_tick], u)
            /\ age'[u] = 0
            /\ pushed' = pushed
            /\ ~res'.ok
\* C37 (the window): the user stays on cooldown until TIMING_WHEEL_TICKS ticks
\* have passed since the write, dropped or not.
C37_Window ==
    \A u \in UserIds : age[u] \in 0 .. (TIMING_WHEEL_TICKS - 1) =>
        /\ is_on_cooldown(cooldown_master, u)
        /\ \A d \in PixelDgrams : pixel_turn(WorkerState, u, d) = WorkerState
\* C37: a pixel write dropped because the ring is full still places its user
\* on cooldown: the bit and the wheel slot are set before the push is tried,
\* so the user cannot resubmit the lost write for TIMING_WHEEL_TICKS ticks.
C37_DropStartsCooldown == [](C37_DroppedTurn /\ C37_Window) /\ [][C37_DroppedStep]_vars
\* A write was dropped one tick ago: the ring is still full, the last push
\* failed and its user is on cooldown.
C37_Witness ==
    /\ RingFull
    /\ res.op = "push" /\ ~res.ok
    /\ \E u \in UserIds : age[u] = 1 /\ is_on_cooldown(cooldown_master, u)
    /\ \A j \in 1 .. Len(pushed) : pushed[j] # res.val

\* ---------------------------------------------------------------------------
\* The size of an encoding (master.rs rle_compress, canvas.rs CompressedBuffer)
\* ---------------------------------------------------------------------------

\* No two neighbouring bytes of the slice are equal.
NoAdjacentEqual(src) ==
    \A i \in DOMAIN src : (i + 1) \in DOMAIN src => src[i] # src[i + 1]

\* The encoding of src on the path simd into a buffer of the capacity
\* CompressedBuffer has for it, followed by two guard bytes.
GuardedCompress(src, simd) ==
    rle_compress(src, [i \in 0 .. (2 * SliceLen(src) + 1) |-> Filler], simd)

\* C39: the encoding of a slice is at most twice as long as the slice, and
\* exactly twice as long when and only when no two neighbouring bytes of the
\* slice are equal; the encoder writes nothing at or after the index it
\* returns, so a buffer of twice the slice's length is never overrun.
C39_CompressedBound ==
    rle_call.pc # "new" =>
        LET len == SliceLen(rle_call.src)
            enc == GuardedCompress(rle_call.src, rle_call.simd)
        IN  /\ Len(rle_call.payload) <= 2 * len
            /\ (Len(rle_call.payload) = 2 * len) <=> NoAdjacentEqual(rle_call.src)
            /\ enc.len = Len(rle_call.payload)
            /\ \A i \in enc.len .. (2 * len + 1) : enc.dst[i] = Filler

\* A slice of two different neighbouring bytes was encoded to four bytes.
C39_Witness ==
    /\ rle_call.pc = "encoded"
    /\ SliceLen(rle_call.src) = 2
    /\ rle_call.src[0] # rle_call.src[1]
    /\ Len(rle_call.payload) = 4

\* ---------------------------------------------------------------------------
\* Chunk framing of a broadcast (worker.rs handle_broadcast), followed on a
\* canvas of FramePixels pixels with the chunk size of the program
\* ---------------------------------------------------------------------------

FramePatterns == {"zeros", "edge", "alt", "ones"}
\* The canvases the master publishes: all zero, the first and the last pixel
\* set, alternating colors, all one.
FrameCanvas(pattern) ==
    [i \in 0 .. (FramePixels - 1) |->
        IF pattern = "zeros" THEN 0
        ELSE IF pattern = "edge" THEN (IF i = 0 \/ i = FramePixels - 1 THEN 1 ELSE 0)
        ELSE IF pattern = "alt" THEN i % 2
        ELSE 1]

\* MasterCore::run publishes a snapshot: the canvas is copied into the slot and
\* rle_compress starts on it.  The worker's last_sent_canvas is a zeroed Vec
\* before its first broadcast.
FramePublish(pattern) ==
    /\ frame_call.pc = "new"
    /\ frame_call.broadcast_ticks < 2
    /\ frame_call' = [frame_call EXCEPT
           !.pc = "compress",
           !.canvas = FrameCanvas(pattern),
           !.compressed = [i \in 0 .. (2 * FramePixels - 1) |-> 0],
           !.src_idx = 0, !.dst_idx = 0, !.compressed_len = 0,
           !.last_sent_canvas = IF frame_call.broadcast_ticks = 0
                                THEN [i \in 0 .. (FramePixels - 1) |-> 0] ELSE @]
    /\ UNCHANGED <<set_pixel_call, rle_call>>
    /\ UNCHANGED <<spscVars, threadVars, ingressVars, poolVars, bcastVars, seqVars, transportVars, clockVars, txVars, ringVars>>

\* rle_compress, one turn of the outer loop (scalar path): one pair written
FrameCompressPair ==
    /\ frame_call.pc = "compress"
    /\ \E color \in {frame_call.canvas[frame_call.src_idx]} :
       \E run \in {rle_run(frame_call.canvas, FramePixels, color, 1, frame_call.src_idx + 1)} :
           frame_call' = [frame_call EXCEPT
               !.compressed = [@ EXCEPT ![frame_call.dst_idx] = run.count % 256,
                                        ![frame_call.dst_idx + 1] = color],
               !.src_idx = run.src_idx,
               !.dst_idx = @ + 2,
               !.compressed_len = IF run.src_idx < FramePixels THEN @ ELSE frame_call.dst_idx + 2,
               !.pc = IF run.src_idx < FramePixels THEN "compress" ELSE "load"]
    /\ UNCHANGED <<set_pixel_call, rle_call>>
    /\ UNCHANGED <<spscVars, threadVars, ingressVars, poolVars, bcastVars, seqVars, transportVars, clockVars, txVars, ringVars>>

\* handle_broadcast, full branch: the tick is counted, data[..compressed_len]
\* is handed to dgram_send chunk by chunk and last_sent_canvas is synced
FrameSendFull ==
    /\ frame_call.pc = "load"
    /\ IsFullTick(frame_call.broadcast_ticks + 1)
    /\ frame_call' = [frame_call EXCEPT
           !.pc = "new",
           !.broadcast_ticks = @ + 1,
           !.full_chunks = chunks_of(Slice(frame_call.compressed, frame_call.compressed_len),
                                     WIRE_CHUNK_SIZE),
           !.last_sent_canvas = frame_call.canvas]
    /\ UNCHANGED <<set_pixel_call, rle_call>>
    /\ UNCHANGED <<spscVars, threadVars, ingressVars, poolVars, bcastVars, seqVars, transportVars, clockVars, txVars, ringVars>>

\* handle_broadcast, diff branch: the tick is counted and diff_buffer cleared
FrameDiffBegin ==
    /\ frame_call.pc = "load"
    /\ ~IsFullTick(frame_call.broadcast_ticks + 1)
    /\ frame_call' = [frame_call EXCEPT
           !.pc = "diff_scan",
           !.broadcast_ticks = @ + 1,
           !.diff_buffer = << >>,
           !.i = 0,
           !.before = frame_call.last_sent_canvas]
    /\ UNCHANGED <<set_pixel_call, rle_call>>
    /\ UNCHANGED <<spscVars, threadVars, ingressVars, poolVars, bcastVars, seqVars, transportVars, clockVars, txVars, ringVars>>

\* handle_broadcast, diff branch: one turn of for i in 0..CANVAS_SIZE
FrameDiffByte ==
    /\ frame_call.pc = "diff_scan"
    /\ \E new_pixel \in {frame_call.canvas[frame_call.i]} :
           frame_call' = [frame_call EXCEPT
               !.diff_buffer = IF frame_call.last_sent_canvas[frame_call.i] # new_pixel
                               THEN @ \o to_le_bytes(frame_call.i) \o <<new_pixel>> ELSE @,
               !.last_sent_canvas = [@ EXCEPT ![frame_call.i] = new_pixel],
               !.i = IF frame_call.i + 1 = FramePixels THEN 0 ELSE @ + 1,
               !.pc = IF frame_call.i + 1 = FramePixels THEN "diff_send" ELSE "diff_scan"]
    /\ UNCHANGED <<set_pixel_call, rle_call>>
    /\ UNCHANGED <<spscVars, threadVars, ingressVars, poolVars, bcastVars, seqVars, transportVars, clockVars, txVars, ringVars>>

\* handle_broadcast, diff branch: if !diff_buffer.is_empty() it is handed to
\* dgram_send chunk by chunk
FrameSendDiff ==
    /\ frame_call.pc = "diff_send"
    /\ frame_call' = [frame_call EXCEPT
           !.pc = "done",
           !.diff_chunks = IF frame_call.diff_buffer # << >>
                           THEN chunks_of(frame_call.diff_buffer, WIRE_CHUNK_SIZE) ELSE << >>]
    /\ UNCHANGED <<set_pixel_call, rle_call>>
    /\ UNCHANGED <<spscVars, threadVars, ingressVars, poolVars, bcastVars, seqVars, transportVars, clockVars, txVars, ringVars>>

InitFrame == InitPool
NextFrame ==
    \/ \E pattern \in FramePatterns : FramePublish(pattern)
    \/ FrameCompressPair
    \/ FrameSendFull
    \/ FrameDiffBegin
    \/ FrameDiffByte
    \/ FrameSendDiff
SpecFrame == InitFrame /\ [][NextFrame]_vars

\* The index of record r of the diff that was scanned.
RecordIndex(r) ==
    from_le_bytes(SubSeq(frame_call.diff_buffer, DIFF_ENTRY_SIZE * (r - 1) + 1,
                         DIFF_ENTRY_SIZE * (r - 1) + 4))
\* The pixels in which the published canvas differs from the one sent before.
Differing ==
    {i \in 0 .. (FramePixels - 1) : frame_call.before[i] # frame_call.canvas[i]}

====
